---- MODULE Spec2Model ----
(***************************************************************************)
(* A model of the debt-network scripts of pedronavarrovera/amo:            *)
(*   - Adjacencymatrixinsights.py : balances, net-balance settlement,      *)
(*     two-hop cycle query, cycle settlement       (specification          *)
(*     SpecInsights)                                                       *)
(*   - bebdim_merge.py / networkconnect.py : loading and the BEBDiM merge  *)
(*     (specification SpecMerge)                                           *)
(*   - core.py : the two Dijkstra routines, one loop iteration per step    *)
(*     (specification SpecDijkstra)                                        *)
(*   - Adjacencymatrixinput.py / AdjacencyMatrixTool.py : the Base64 code  *)
(*     of a network, and the loader of bebdim_merge.py with its input      *)
(*     (specification SpecLoad)                                            *)
(*   - DebtCycleApi.py : the two endpoints that report a bottleneck        *)
(*     (actions of SpecInsights)                                           *)
(*   - a ledger that is merged and settled in turn                         *)
(*     (specification SpecLedger)                                          *)
(*   - the while loop of suggest_settlements, one iteration per step       *)
(*     (specification SpecSettle)                                          *)
(*   - cycle settlements repeated until no cycle is detected               *)
(*     (specification SpecSettleAll)                                       *)
(*   - ResusableAzureblobstoragematrix.py : two calls that change an entry *)
(*     of a stored matrix (specification SpecBlob; net is the blob)        *)
(* Python lists that are indexed by node (matrix rows, node_names, the     *)
(* Dijkstra arrays) are functions over 0..n-1, as in the source.  Other    *)
(* Python lists (a cycle, a path, the creditor and debtor lists) are       *)
(* sequences; a Python index k is position k+1 of the sequence.  A Python  *)
(* dict keyed by name is a sequence of <<key, value>> pairs in insertion   *)
(* order.                                                                  *)
(***************************************************************************)
EXTENDS Integers, Sequences, FiniteSets, TLC

VARIABLES
    matrix,        \* the adjacency matrix the script works on (mutated in place)
    node_names,    \* its index -> name map
    last,          \* what the last call did: its name, arguments, printed/returned values
    calls,         \* number of calls made so far in this run
    net,           \* bebdim_merge.py: the two loaded networks and the merge outcome
    dj             \* core.py: the locals of the running Dijkstra routine

vars == <<matrix, node_names, last, calls, net, dj>>

(***************************************************************************)
(* Bounds of the model.                                                    *)
(***************************************************************************)
MaxN == 3          \* largest enumerated network
MaxW == 2          \* largest enumerated edge weight
MaxEdges == 3      \* most positive entries of an enumerated matrix
MaxDup == 1        \* most nodes that carry the name of an earlier node
MaxCycleLen == 3   \* longest list passed as a cycle
MaxCalls == 1        \* calls per run of the insights script

None == "None"

(***************************************************************************)
(* Generic helpers.                                                        *)
(***************************************************************************)
Range(f) == {f[x] : x \in DOMAIN f}

Size(m) == Cardinality(DOMAIN m)

Idx(n) == 0 .. (n - 1)

SetMax(S) == CHOOSE x \in S : \A y \in S : y <= x

SetMin(S) == CHOOSE x \in S : \A y \in S : x <= y

RECURSIVE SumTo(_, _)
\* f[0] + ... + f[k-1]
SumTo(f, k) == IF k = 0 THEN 0 ELSE SumTo(f, k - 1) + f[k - 1]

RECURSIVE SubsetsUpTo(_, _)
\* The subsets of S with at most k elements.
SubsetsUpTo(S, k) ==
    IF k = 0 THEN {{}}
    ELSE LET smaller == SubsetsUpTo(S, k - 1)
         IN smaller \cup {T \cup {x} : T \in smaller, x \in S}

SeqOfLen(S, k) == [1 .. k -> S]

SeqsUpTo(S, k) == UNION {SeqOfLen(S, l) : l \in 0 .. k}

(***************************************************************************)
(* Python dict keyed by name: d[k] = v keeps k's first position.           *)
(***************************************************************************)
DictHas(d, k) == \E p \in 1 .. Len(d) : d[p][1] = k

DictGet(d, k) == d[CHOOSE p \in 1 .. Len(d) : d[p][1] = k][2]

DictSet(d, k, v) ==
    IF DictHas(d, k)
    THEN [p \in 1 .. Len(d) |-> IF d[p][1] = k THEN <<k, v>> ELSE d[p]]
    ELSE Append(d, <<k, v>>)

RECURSIVE StableInsert(_, _, _)
\* x goes after every element whose key is <= x's key (sorted() is stable)
StableInsert(s, x, k) ==
    IF s = <<>> THEN <<x>>
    ELSE IF s[Len(s)][2] * k <= x[2] * k THEN Append(s, x)
    ELSE Append(StableInsert(SubSeq(s, 1, Len(s) - 1), x, k), s[Len(s)])

RECURSIVE SortedBy(_, _)
\* sorted(items, key=lambda x: k * x[1]) for k = 1 (ascending) or -1 (descending)
SortedBy(items, k) ==
    IF items = <<>> THEN <<>>
    ELSE StableInsert(SortedBy(SubSeq(items, 1, Len(items) - 1), k), items[Len(items)], k)

FilterSeq(s, Keep(_)) ==
    LET RECURSIVE F(_)
        F(k) == IF k = 0 THEN <<>>
                ELSE IF Keep(s[k]) THEN Append(F(k - 1), s[k]) ELSE F(k - 1)
    IN F(Len(s))

(***************************************************************************)
(* Adjacencymatrixinsights.py                                              *)
(***************************************************************************)

\* name_to_index = {v: k for k, v in node_names.items()}: of the indices that
\* carry a name, the one inserted last (the largest) is kept.
NameToIndex(nn) == [x \in Range(nn) |-> SetMax({k \in DOMAIN nn : nn[k] = x})]

canonicalize_cycle(cycle) ==
    IF Len(cycle) > 1 /\ cycle[1] = cycle[Len(cycle)]
    THEN SubSeq(cycle, 1, Len(cycle) - 1)
    ELSE cycle

RowSum(m, i) == SumTo(m[i], Size(m))

ColSum(m, i) == SumTo([j \in DOMAIN m |-> m[j][i]], Size(m))

RECURSIVE AnalyzeTotals(_, _, _)
\* The loop of analyze_debt_matrix over i in range(k): the three dicts keyed
\* by the person's name.
AnalyzeTotals(m, nn, k) ==
    IF k = 0 THEN [total_owed_by |-> <<>>, total_owed_to |-> <<>>, net_balance |-> <<>>]
    ELSE LET d == AnalyzeTotals(m, nn, k - 1)
             i == k - 1
             person == nn[i]
             owed_by_person == RowSum(m, i)
             owed_to_person == ColSum(m, i)
         IN [total_owed_by |-> DictSet(d.total_owed_by, person, owed_by_person),
             total_owed_to |-> DictSet(d.total_owed_to, person, owed_to_person),
             net_balance |-> DictSet(d.net_balance, person, owed_to_person - owed_by_person)]

\* An iteration that pays nothing and moves no pointer.
SettleStepIdle(st) ==
    [st EXCEPT !.printed = Append(st.printed,
                                  <<st.debtors[st.i + 1][1], st.creditors[st.j + 1][1], 0>>)]

\* One iteration of the while loop of suggest_settlements.
SettleStep(st) ==
    LET debtor == st.debtors[st.i + 1][1]
        debt_amount == st.debtors[st.i + 1][2]
        creditor == st.creditors[st.j + 1][1]
        credit_amount == st.creditors[st.j + 1][2]
        payment == IF -debt_amount <= credit_amount THEN -debt_amount ELSE credit_amount
        debtors2 == [st.debtors EXCEPT ![st.i + 1] = <<debtor, debt_amount + payment>>]
        creditors2 == [st.creditors EXCEPT ![st.j + 1] = <<creditor, credit_amount - payment>>]
    IN [debtors |-> debtors2,
        creditors |-> creditors2,
        i |-> IF debtors2[st.i + 1][2] = 0 THEN st.i + 1 ELSE st.i,
        j |-> IF creditors2[st.j + 1][2] = 0 THEN st.j + 1 ELSE st.j,
        printed |-> Append(st.printed, <<debtor, creditor, payment>>)]

\* The creditor filter with ">=" for ">": a settled party counts as a creditor.
IsCreditorOrSettled(item) == item[2] >= 0

\* if b > 0
IsCreditor(item) == item[2] > 0

\* if b < 0
IsDebtor(item) == item[2] < 0

\* The locals of suggest_settlements before its loop.
SettleStart(net_balance) ==
    [creditors |-> SortedBy(FilterSeq(net_balance, IsCreditor), -1),
     debtors |-> SortedBy(FilterSeq(net_balance, IsDebtor), 1),
     i |-> 0, j |-> 0, printed |-> <<>>]

SettleGuard(st) == st.i < Len(st.debtors) /\ st.j < Len(st.creditors)

RECURSIVE SettleLoop(_)
SettleLoop(st) == IF SettleGuard(st) THEN SettleLoop(SettleStep(st)) ELSE st

\* The "X should pay Y -> amount" lines suggest_settlements prints, in order.
suggest_settlements(net_balance) == SettleLoop(SettleStart(net_balance)).printed

\* core_igraph.dijkstra_igraph_to_target builds the graph, computes the
\* distance and the path and prints them; it has no return statement.
dijkstra_igraph_to_target(m, start_vertex, destination_vertex, nn) == None

\* matrix[name_to_index[cycle[i]]][name_to_index[cycle[(i + 1) % len(cycle)]]]
\* for the Python index i.
CycleEdge(n2i, cycle, i) ==
    <<n2i[cycle[i + 1]], n2i[cycle[((i + 1) % Len(cycle)) + 1]]>>

\* The bottleneck without the closing edge: min over range(len(cycle) - 1).
MinTransferOpen(m, n2i, cycle) ==
    SetMin({m[CycleEdge(n2i, cycle, i)[1]][CycleEdge(n2i, cycle, i)[2]] :
               i \in 0 .. (Len(cycle) - 2)})

\* The largest entry of the ring instead of the smallest.
MaxTransfer(m, n2i, cycle) ==
    SetMax({m[CycleEdge(n2i, cycle, i)[1]][CycleEdge(n2i, cycle, i)[2]] :
               i \in 0 .. (Len(cycle) - 1)})

\* min_transfer of apply_cycle_settlement: min over range(len(cycle)), the
\* closing edge included.
MinTransfer(m, n2i, cycle) ==
    SetMin({m[CycleEdge(n2i, cycle, i)[1]][CycleEdge(n2i, cycle, i)[2]] :
               i \in 0 .. (Len(cycle) - 1)})

\* A subtraction that also touches the reverse entry.
SubtractBothWays(m, u, v, amount) ==
    [m EXCEPT ![u][v] = @ - amount, ![v][u] = @ - amount]

\* matrix[u][v] -= min_transfer
SubtractEntry(m, u, v, amount) == [m EXCEPT ![u][v] = @ - amount]

\* A loop that stops after the first link of the ring.
SubtractFirstOnly(m, n2i, cycle, amount, k) ==
    LET e == CycleEdge(n2i, cycle, 0)
    IN SubtractEntry(m, e[1], e[2], amount)

RECURSIVE SubtractAlong(_, _, _, _, _)
\* The for loop of apply_cycle_settlement over i in range(k).
SubtractAlong(m, n2i, cycle, amount, k) ==
    IF k = 0 THEN m
    ELSE LET e == CycleEdge(n2i, cycle, k - 1)
         IN SubtractEntry(SubtractAlong(m, n2i, cycle, amount, k - 1), e[1], e[2], amount)

\* G of detect_debt_cycles: a networkx DiGraph whose nodes are the NAMES.
\* There is an edge from a to b when some cell (i, j) with those names holds a
\* positive entry.
GraphEdges(m, nn) ==
    {<<nn[c[1]], nn[c[2]]>> : c \in {d \in (DOMAIN m) \X (DOMAIN m) : m[d[1]][d[2]] > 0}}

\* G[a][b]['weight']: add_edge overwrites, so the edge carries the entry of
\* the last cell (i, j) of the double loop that has those names.
GraphWeight(m, nn, a, b) ==
    LET cells == {d \in (DOMAIN m) \X (DOMAIN m) :
                     nn[d[1]] = a /\ nn[d[2]] = b /\ m[d[1]][d[2]] > 0}
        lastCell == CHOOSE c \in cells :
                       \A d \in cells : d[1] < c[1] \/ (d[1] = c[1] /\ d[2] <= c[2])
    IN m[lastCell[1]][lastCell[2]]

\* nx.simple_cycles(G): every elementary circuit of G once, a self-loop as the
\* one-node cycle [v].  The rotation networkx returns is kept as the one that
\* starts at the name added to G first among the cycle's names.
simple_cycles(m, nn) ==
    LET edges == GraphEdges(m, nn)
        nodes == {e[1] : e \in edges} \cup {e[2] : e \in edges}
        first(x) == SetMin({k \in DOMAIN nn : nn[k] = x})
    IN {c \in SeqsUpTo(nodes, Cardinality(nodes)) :
           /\ Len(c) >= 1
           /\ \A p, q \in 1 .. Len(c) : p # q => c[p] # c[q]
           /\ \A p \in 1 .. Len(c) : first(c[1]) <= first(c[p])
           /\ \A p \in 1 .. Len(c) : <<c[p], c[(p % Len(c)) + 1]>> \in edges}

\* The cycles detect_debt_cycles prints, each with its "potential to cancel".
detect_debt_cycles(m, nn) ==
    {[cycle |-> canonicalize_cycle(c),
      min_transfer |-> SetMin({GraphWeight(m, nn, canonicalize_cycle(c)[k + 1],
                                           canonicalize_cycle(c)[((k + 1) % Len(canonicalize_cycle(c))) + 1]) :
                                  k \in 0 .. (Len(canonicalize_cycle(c)) - 1)})] :
        c \in simple_cycles(m, nn)}

\* The last item that carries the largest value.
LastMax(d) ==
    d[SetMax({p \in 1 .. Len(d) : \A q \in 1 .. Len(d) : d[q][2] <= d[p][2]})]

\* max(d.items(), key=lambda x: x[1]): the first item that carries the largest
\* value, in the dict's order.
FirstMax(d) ==
    d[SetMin({p \in 1 .. Len(d) : \A q \in 1 .. Len(d) : d[q][2] <= d[p][2]})]

\* min(d.items(), key=lambda x: x[1])
FirstMin(d) ==
    d[SetMin({p \in 1 .. Len(d) : \A q \in 1 .. Len(d) : d[p][2] <= d[q][2]})]

\* What analyze_debt_matrix computes and prints.  On an empty matrix max()
\* raises ValueError (empty sequence) before suggest_settlements is reached.
analyze_debt_matrix(m, nn) ==
    LET n == Size(m)
        d == AnalyzeTotals(m, nn, n)
    IN IF n = 0
       THEN [op |-> "analyze_debt_matrix", raised |-> "ValueError"]
       ELSE [op |-> "analyze_debt_matrix", raised |-> None,
             total_owed_by |-> d.total_owed_by,
             total_owed_to |-> d.total_owed_to,
             net_balance |-> d.net_balance,
             most_owed |-> FirstMax(d.total_owed_to),
             most_debt |-> FirstMax(d.total_owed_by),
             top_creditor |-> FirstMax(d.net_balance),
             top_debtor |-> FirstMin(d.net_balance),
             cycles |-> detect_debt_cycles(m, nn),
             settlements |-> suggest_settlements(d.net_balance)]

\* find_debt_cycle_shortest_back: the returned cycle (or None) and the
\* message printed on failure.
find_debt_cycle_shortest_back(m, nn, start_node, second_node) ==
    LET name_to_index == NameToIndex(nn)
        u == name_to_index[start_node]
        v == name_to_index[second_node]
        path_back_indices == dijkstra_igraph_to_target(m, v, u, nn)
        cycle_indices == <<u, v>> \o SubSeq(path_back_indices, 2, Len(path_back_indices))
        cycle == canonicalize_cycle([p \in 1 .. Len(cycle_indices) |-> nn[cycle_indices[p]]])
    IN IF start_node \notin DOMAIN name_to_index \/ second_node \notin DOMAIN name_to_index
       THEN [result |-> None, message |-> "Invalid node names"]
       ELSE IF m[u][v] <= 0
       THEN [result |-> None, message |-> "No direct debt"]
       ELSE IF path_back_indices = None \/ Len(path_back_indices) < 2
       THEN [result |-> None, message |-> "No path"]
       ELSE [result |-> cycle, message |-> None]

\* A settlement that resolves each name only when it writes the entry: the
\* links before the first unknown name are already reduced when KeyError is
\* raised.
ApplyCycleResolvingLate(m, nn, cycle0) ==
    LET cycle == canonicalize_cycle(cycle0)
        name_to_index == NameToIndex(nn)
        known(i) == /\ cycle[i + 1] \in DOMAIN name_to_index
                    /\ cycle[((i + 1) % Len(cycle)) + 1] \in DOMAIN name_to_index
        firstBad == SetMin({i \in 0 .. (Len(cycle) - 1) : ~known(i)} \cup {Len(cycle)})
        min_transfer == MinTransfer(m, name_to_index, cycle)
        firstEntry == m[CycleEdge(name_to_index, cycle, 0)[1]][CycleEdge(name_to_index, cycle, 0)[2]]
    IN IF Len(cycle) < 2
       THEN [matrix |-> m, outcome |-> "Invalid cycle", min_transfer |-> None]
       ELSE IF firstBad = 0
       THEN [matrix |-> m, outcome |-> "KeyError", min_transfer |-> None]
       ELSE IF firstBad < Len(cycle)
       THEN [matrix |-> SubtractAlong(m, name_to_index, cycle, firstEntry, firstBad),
             outcome |-> "KeyError", min_transfer |-> None]
       ELSE [matrix |-> SubtractAlong(m, name_to_index, cycle, min_transfer, Len(cycle)),
             outcome |-> "Applied", min_transfer |-> min_transfer]

\* apply_cycle_settlement: the matrix afterwards and how the call ended.  A
\* name that is no key of name_to_index raises KeyError while min_transfer is
\* computed, before any entry is written.
apply_cycle_settlement(m, nn, cycle0) ==
    LET cycle == canonicalize_cycle(cycle0)
        name_to_index == NameToIndex(nn)
        min_transfer == MinTransfer(m, name_to_index, cycle)
    IN IF Len(cycle) < 2
       THEN [matrix |-> m, outcome |-> "Invalid cycle", min_transfer |-> None]
       ELSE IF \E p \in 1 .. Len(cycle) : cycle[p] \notin DOMAIN name_to_index
       THEN [matrix |-> m, outcome |-> "KeyError", min_transfer |-> None]
       ELSE [matrix |-> SubtractAlong(m, name_to_index, cycle, min_transfer, Len(cycle)),
             outcome |-> "Applied", min_transfer |-> min_transfer]

\* suggest_settlements_from_cycle: the amount it prints for every link.
suggest_settlements_from_cycle(m, nn, cycle0) ==
    LET cycle == canonicalize_cycle(cycle0)
        name_to_index == NameToIndex(nn)
    IN IF Len(cycle) < 2
       THEN [outcome |-> "Invalid cycle", min_transfer |-> None]
       ELSE IF \E p \in 1 .. Len(cycle) : cycle[p] \notin DOMAIN name_to_index
       THEN [outcome |-> "KeyError", min_transfer |-> None]
       ELSE [outcome |-> "Suggested", min_transfer |-> MinTransfer(m, name_to_index, cycle)]

\* DebtCycleApi.py, lines 41-45 and 61-65: the minimum over
\* range(len(cycle) - 1), that is without the link from the last node back
\* to the first.
ApiMinTransfer(m, name_to_index, cycle) ==
    SetMin({m[name_to_index[cycle[i + 1]]][name_to_index[cycle[i + 2]]] :
               i \in 0 .. (Len(cycle) - 2)})

\* POST /analyze-cycle
analyze_cycle(m, nn, start_node, second_node) ==
    LET found == find_debt_cycle_shortest_back(m, nn, start_node, second_node)
    IN IF found.message # None
       THEN [status |-> 400, detail |-> "No valid debt cycle found."]
       ELSE [status |-> 200, cycle |-> found.result,
             min_transfer |-> ApiMinTransfer(m, NameToIndex(nn), found.result)]

\* POST /send-condonation-email, up to the computation of min_transfer.
send_condonation_email(m, nn, start_node, second_node) ==
    LET found == find_debt_cycle_shortest_back(m, nn, start_node, second_node)
    IN IF found.message # None
       THEN [status |-> 400, detail |-> "No valid debt cycle found."]
       ELSE [status |-> 200, cycle |-> found.result,
             min_transfer |-> ApiMinTransfer(m, NameToIndex(nn), found.result)]

(***************************************************************************)
(* The networks a run of the insights script starts from.                  *)
(***************************************************************************)
FromRows(rows) ==
    [i \in Idx(Len(rows)) |-> [j \in Idx(Len(rows[i + 1])) |-> rows[i + 1][j + 1]]]

FromList(names) == [i \in Idx(Len(names)) |-> names[i + 1]]

NamePool == <<"Pedro", "Pilar", "Andrea", "David", "Elena">>

\* The example of the module header: Pedro -> Pilar 10, Pilar -> Andrea 20,
\* Andrea -> David 30, David -> Pedro 40.
DocNetwork ==
    [matrix |-> FromRows(<< <<0, 10, 0, 0>>, <<0, 0, 20, 0>>,
                            <<0, 0, 0, 30>>, <<40, 0, 0, 0>> >>),
     node_names |-> FromList(<<"Pedro", "Pilar", "Andrea", "David">>)]

\* Matrices of size n with at most MaxEdges entries > 0, each at most MaxW.
EnumMatrices(n) ==
    LET cells == Idx(n) \X Idx(n)
        edgeSets == SubsetsUpTo(cells, MaxEdges)
    IN UNION {{[i \in Idx(n) |-> [j \in Idx(n) |->
                   IF <<i, j>> \in E THEN w[<<i, j>>] ELSE 0]] :
               w \in [E -> 1 .. MaxW]} : E \in edgeSets}

\* Name maps keyed 0..n-1 (read_node_names_dict); names need not be unique: at
\* most MaxDup nodes carry the name of an earlier node.
EnumNames(n) ==
    LET pick == {f \in [Idx(n) -> Idx(n)] :
                    /\ \A i \in Idx(n) : f[i] = i \/ \E k \in Idx(i) : f[i] = f[k]
                    /\ Cardinality({i \in Idx(n) : f[i] # i}) <= MaxDup}
    IN {[i \in Idx(n) |-> NamePool[f[i] + 1]] : f \in pick}

Networks ==
    {DocNetwork} \cup
    UNION {[matrix : EnumMatrices(n), node_names : EnumNames(n)] : n \in 0 .. MaxN}

UnknownName == "Nobody"

NameInputs(nn) == Range(nn) \cup {UnknownName}

DocCycles ==
    {<<"Pedro", "Pilar", "Andrea", "David">>,
     <<"David", "Pedro", "Pilar", "Andrea">>,
     <<"Pedro", "Pilar", "Andrea", "David", "Pedro">>}

CycleInputs(nn) == SeqsUpTo(NameInputs(nn), MaxCycleLen) \cup DocCycles

IdleNet == [phase |-> "idle"]

IdleDj == [pc |-> "idle"]

(***************************************************************************)
(* SpecInsights: calls of the insights script on one network.              *)
(***************************************************************************)
InitInsights ==
    /\ \E nw \in Networks : matrix = nw.matrix /\ node_names = nw.node_names
    /\ last = [op |-> "start"]
    /\ calls = 0
    /\ net = IdleNet
    /\ dj = IdleDj

Analyze ==
    /\ calls < MaxCalls
    /\ last' = analyze_debt_matrix(matrix, node_names)
    /\ calls' = calls + 1
    /\ UNCHANGED <<matrix, node_names, net, dj>>

FindCycle ==
    /\ calls < MaxCalls
    /\ \E start_node \in NameInputs(node_names), second_node \in NameInputs(node_names) :
          LET r == find_debt_cycle_shortest_back(matrix, node_names, start_node, second_node)
          IN last' = [op |-> "find_debt_cycle_shortest_back",
                      start_node |-> start_node, second_node |-> second_node,
                      result |-> r.result, message |-> r.message]
    /\ calls' = calls + 1
    /\ UNCHANGED <<matrix, node_names, net, dj>>

ApplyCycle ==
    /\ calls < MaxCalls
    /\ \E cycle \in CycleInputs(node_names) :
          LET r == apply_cycle_settlement(matrix, node_names, cycle)
          IN /\ matrix' = r.matrix
             /\ last' = [op |-> "apply_cycle_settlement", cycle |-> cycle,
                         before |-> matrix, names_before |-> node_names,
                         outcome |-> r.outcome, min_transfer |-> r.min_transfer]
    /\ calls' = calls + 1
    /\ UNCHANGED <<node_names, net, dj>>

\* The canonical cycles over the names of the network: at least two names,
\* no name twice.
CanonicalCycles(nn) ==
    {c \in SeqsUpTo(Range(nn), MaxCycleLen) :
        Len(c) >= 2 /\ \A p, q \in 1 .. Len(c) : p # q => c[p] # c[q]}

AnalyzeCycleEndpoint ==
    /\ calls < MaxCalls
    /\ \E start_node \in NameInputs(node_names), second_node \in NameInputs(node_names) :
          last' = [op |-> "/analyze-cycle", start_node |-> start_node,
                   second_node |-> second_node,
                   response |-> analyze_cycle(matrix, node_names, start_node, second_node)]
    /\ calls' = calls + 1
    /\ UNCHANGED <<matrix, node_names, net, dj>>

SendCondonationEmailEndpoint ==
    /\ calls < MaxCalls
    /\ \E start_node \in NameInputs(node_names), second_node \in NameInputs(node_names) :
          last' = [op |-> "/send-condonation-email", start_node |-> start_node,
                   second_node |-> second_node,
                   response |-> send_condonation_email(matrix, node_names,
                                                       start_node, second_node)]
    /\ calls' = calls + 1
    /\ UNCHANGED <<matrix, node_names, net, dj>>

\* The bottleneck of one canonical cycle as each place computes it: the
\* expression of the two endpoints, suggest_settlements_from_cycle, and
\* apply_cycle_settlement (on a copy of the matrix).
CycleBottlenecks ==
    /\ calls < MaxCalls
    /\ \E cycle \in CanonicalCycles(node_names) :
          last' = [op |-> "min_transfer", cycle |-> cycle,
                   api |-> ApiMinTransfer(matrix, NameToIndex(node_names), cycle),
                   suggested |-> suggest_settlements_from_cycle(matrix, node_names, cycle).min_transfer,
                   settlement |-> apply_cycle_settlement(matrix, node_names, cycle).min_transfer]
    /\ calls' = calls + 1
    /\ UNCHANGED <<matrix, node_names, net, dj>>

NextInsights ==
    \/ Analyze
    \/ FindCycle
    \/ ApplyCycle
    \/ AnalyzeCycleEndpoint
    \/ SendCondonationEmailEndpoint
    \/ CycleBottlenecks

SpecInsights == InitInsights /\ [][NextInsights]_vars

(***************************************************************************)
(* Reference notions the claims are stated with.                           *)
(***************************************************************************)
Analyzed == last.op = "analyze_debt_matrix" /\ last.raised = None

SettledCycle == last.op = "apply_cycle_settlement" /\ last.outcome = "Applied"

IsSimpleNameCycle(cycle, nn) ==
    /\ Len(cycle) >= 2
    /\ \A p \in 1 .. Len(cycle) : cycle[p] \in Range(nn)
    /\ \A p, q \in 1 .. Len(cycle) : p # q => cycle[p] # cycle[q]

\* The node the settlement resolves the p-th element of the cycle to.
NodeOf(nn, cycle, p) == SetMax({k \in DOMAIN nn : nn[k] = cycle[p]})

NextPos(cycle, p) == IF p = Len(cycle) THEN 1 ELSE p + 1

\* The cells (v_i, v_((i+1) mod k)) of the ring, the closing one included.
RingCells(nn, cycle) ==
    {<<NodeOf(nn, cycle, p), NodeOf(nn, cycle, NextPos(cycle, p))>> : p \in 1 .. Len(cycle)}

IsBottleneck(m, cells, b) ==
    /\ \E c \in cells : m[c[1]][c[2]] = b
    /\ \A c \in cells : m[c[1]][c[2]] >= b

RECURSIVE Replay(_, _)
\* The scratch balances after the first k printed transactions: the payer's
\* balance rises by the amount, the receiver's falls by it.
Replay(balances, txs) ==
    IF txs = <<>> THEN balances
    ELSE LET t == txs[Len(txs)]
             b == Replay(balances, SubSeq(txs, 1, Len(txs) - 1))
             b1 == DictSet(b, t[1], DictGet(b, t[1]) + t[3])
         IN DictSet(b1, t[2], DictGet(b1, t[2]) - t[3])

(***************************************************************************)
(* C1: for every square matrix of non-negative integers, the net balances  *)
(* analyze_debt_matrix reports (owed to minus owed by) sum to 0 over all   *)
(* nodes.                                                                  *)
(***************************************************************************)
C1_NetBalancesSumToZero ==
    Analyzed =>
        SumTo([i \in DOMAIN node_names |-> DictGet(last.net_balance, node_names[i])],
              Size(matrix)) = 0

(***************************************************************************)
(* C2: on a canonical simple cycle, apply_cycle_settlement subtracts the   *)
(* wraparound minimum m (closing edge included) from each of the k cycle   *)
(* entries; afterwards at least one cycle entry is exactly 0 and none is   *)
(* negative.                                                               *)
(***************************************************************************)
C2_CycleSettlementSubtractsBottleneck ==
    (SettledCycle /\ IsSimpleNameCycle(last.cycle, last.names_before)) =>
        LET cells == RingCells(last.names_before, last.cycle)
        IN /\ IsBottleneck(last.before, cells, last.min_transfer)
           /\ \A c \in cells : matrix[c[1]][c[2]] = last.before[c[1]][c[2]] - last.min_transfer
           /\ \E c \in cells : matrix[c[1]][c[2]] = 0
           /\ \A c \in cells : matrix[c[1]][c[2]] >= 0

\* A 3-cycle whose closing edge is the strict minimum has been settled.
C2_Witness ==
    /\ SettledCycle
    /\ IsSimpleNameCycle(last.cycle, last.names_before)
    /\ Len(last.cycle) = 3
    /\ last.min_transfer > 0
    /\ LET a == NodeOf(last.names_before, last.cycle, 1)
           b == NodeOf(last.names_before, last.cycle, 2)
           c == NodeOf(last.names_before, last.cycle, 3)
       IN /\ last.before[c][a] < last.before[a][b]
          /\ last.before[c][a] < last.before[b][c]
          /\ matrix[c][a] = 0

(***************************************************************************)
(* C3: apply_cycle_settlement changes only the k entries of the given      *)
(* cycle; every other matrix entry and the node-name map are unchanged.    *)
(***************************************************************************)
C3_CycleSettlementFrame ==
    (SettledCycle /\ IsSimpleNameCycle(last.cycle, last.names_before)) =>
        /\ node_names = last.names_before
        /\ DOMAIN matrix = DOMAIN last.before
        /\ \A i, j \in DOMAIN matrix :
              <<i, j>> \notin RingCells(last.names_before, last.cycle)
                  => matrix[i][j] = last.before[i][j]

\* A cycle was settled by a positive amount next to a debt outside it.
C3_Witness ==
    /\ SettledCycle
    /\ IsSimpleNameCycle(last.cycle, last.names_before)
    /\ last.min_transfer > 0
    /\ \E i, j \in DOMAIN matrix :
          /\ <<i, j>> \notin RingCells(last.names_before, last.cycle)
          /\ last.before[i][j] > 0

(***************************************************************************)
(* C4: replaying every printed (payer, receiver, amount) on a scratch copy *)
(* of the net balances leaves every node's balance exactly 0.              *)
(***************************************************************************)
C4_SettlementsZeroEveryBalance ==
    Analyzed =>
        LET scratch == Replay(last.net_balance, last.settlements)
        IN \A i \in DOMAIN node_names : DictGet(scratch, node_names[i]) = 0

(***************************************************************************)
(* C5: every transaction of the net-balance settlement has an amount > 0,  *)
(* and a network of n nodes gets at most n-1 transactions.                 *)
(***************************************************************************)
C5_PositiveAmountsAtMostNMinus1 ==
    Analyzed =>
        /\ \A p \in 1 .. Len(last.settlements) : last.settlements[p][3] > 0
        /\ Len(last.settlements) <= Size(matrix) - 1

\* The bound is met: n-1 transactions for n >= 3.
C5_Witness ==
    /\ Analyzed
    /\ Size(matrix) >= 3
    /\ Len(last.settlements) = Size(matrix) - 1

(***************************************************************************)
(* core.py: dijkstra and dijkstra_to_target.                               *)
(*                                                                         *)
(* The routines are called with Python lists of ints (the example          *)
(* matrices) and with numpy int64 arrays (np.random.randint, core.py:467). *)
(* With a list every sum is exact.  With an int64 array edge_distance is   *)
(* an int64 scalar and shortest_distance + edge_distance is an int64 sum   *)
(* that wraps around.  sys.maxsize is 2^63 - 1; the model keeps the same   *)
(* two's-complement arithmetic in a word of 30 bits.                       *)
(***************************************************************************)
NO_PARENT == -1

\* sys.maxsize, the largest value of the signed word.
MaxSize == 2 ^ 29 - 1

\* The value an int64 sum wraps to.
Wrap(x) == ((x + MaxSize + 1) % (2 * (MaxSize + 1))) - (MaxSize + 1)

\* shortest_distance + edge_distance
AddDistance(repr, shortest_distance, edge_distance) ==
    IF repr = "int64"
    THEN Wrap(shortest_distance + edge_distance)
    ELSE shortest_distance + edge_distance

\* Python's seq[k] for k = -1 is the last element.
PyIndex(k, n) == IF k < 0 THEN k + n ELSE k

\* A scan that keeps the last vertex of the smallest distance (<= in place
\* of <).
NearestLast(shortest_distances, added) ==
    LET cand == {v \in DOMAIN added :
                    ~added[v] /\ shortest_distances[v] < MaxSize}
        best == {v \in cand : \A w \in cand : shortest_distances[v] <= shortest_distances[w]}
    IN IF cand = {} THEN -1 ELSE SetMax(best)

\* The scan "for vertex_index in range(n_vertices)": the first not-added
\* vertex of the smallest distance below sys.maxsize, or -1.
Nearest(shortest_distances, added) ==
    LET cand == {v \in DOMAIN added :
                    ~added[v] /\ shortest_distances[v] < MaxSize}
        best == {v \in cand : \A w \in cand : shortest_distances[v] <= shortest_distances[w]}
    IN IF cand = {} THEN -1 ELSE SetMin(best)

\* The relaxation loop "for vertex_index in range(n_vertices)" from the
\* picked vertex.
Relax(d, m, nearest_vertex, shortest_distance) ==
    LET row == m[PyIndex(nearest_vertex, Size(m))]
        better == {v \in DOMAIN row :
                      /\ row[v] > 0
                      /\ AddDistance(d.repr, shortest_distance, row[v]) < d.shortest_distances[v]}
    IN [d EXCEPT
          !.shortest_distances = [v \in DOMAIN row |->
              IF v \in better THEN AddDistance(d.repr, shortest_distance, row[v]) ELSE @[v]],
          !.parents = [v \in DOMAIN row |-> IF v \in better THEN nearest_vertex ELSE @[v]]]

RECURSIVE PathTo(_, _, _)
\* print_path: the vertices printed, from the root of the parent chain to
\* current_vertex (at most fuel of them).
PathTo(parents, current_vertex, fuel) ==
    IF current_vertex = NO_PARENT \/ fuel = 0 THEN <<>>
    ELSE Append(PathTo(parents, parents[current_vertex], fuel - 1), current_vertex)

\* The locals after the initialisation of either routine.
DijkstraLocals(routine, repr, m, start_vertex, destination_vertex) ==
    LET n_vertices == Size(m[0])
    IN [pc |-> "loop", routine |-> routine, repr |-> repr,
        start_vertex |-> start_vertex, destination_vertex |-> destination_vertex,
        n_vertices |-> n_vertices,
        shortest_distances |-> [v \in Idx(n_vertices) |-> IF v = start_vertex THEN 0 ELSE MaxSize],
        added |-> [v \in Idx(n_vertices) |-> FALSE],
        parents |-> [v \in Idx(n_vertices) |-> -1],
        iterations |-> 0,
        picked |-> <<>>,
        outcome |-> None,
        printed |-> None]

\* One iteration of "for i in range(1, n_vertices)" of dijkstra.
DijkstraIteration(d, m) ==
    LET nearest_vertex == Nearest(d.shortest_distances, d.added)
        shortest_distance ==
            IF nearest_vertex = -1 THEN MaxSize ELSE d.shortest_distances[nearest_vertex]
        marked == [d EXCEPT !.added[PyIndex(nearest_vertex, d.n_vertices)] = TRUE,
                            !.iterations = @ + 1,
                            !.picked = Append(@, nearest_vertex)]
    IN Relax(marked, m, nearest_vertex, shortest_distance)

\* One iteration of "for _ in range(n_vertices)" of dijkstra_to_target; pc
\* becomes "break" when the loop is left early.
ToTargetIteration(d, m) ==
    LET nearest_vertex == Nearest(d.shortest_distances, d.added)
        shortest_distance == d.shortest_distances[nearest_vertex]
        counted == [d EXCEPT !.iterations = @ + 1, !.picked = Append(@, nearest_vertex)]
        marked == [counted EXCEPT !.added[nearest_vertex] = TRUE]
    IN IF nearest_vertex = -1 THEN [counted EXCEPT !.pc = "break"]
       ELSE IF nearest_vertex = d.destination_vertex THEN [marked EXCEPT !.pc = "break"]
       ELSE Relax(marked, m, nearest_vertex, shortest_distance)

\* print_solution: for every vertex but the start, its distance and path.
print_solution(d) ==
    [v \in Idx(d.n_vertices) \ {d.start_vertex} |->
        [distance |-> d.shortest_distances[v],
         path |-> PathTo(d.parents, v, d.n_vertices)]]

\* The output of dijkstra_to_target: always a distance and a path.
PrintTarget(d) ==
    [distance |-> d.shortest_distances[d.destination_vertex],
     path |-> PathTo(d.parents, d.destination_vertex, d.n_vertices)]

DefaultNames(n) == [i \in Idx(n) |-> NamePool[(i % Len(NamePool)) + 1]]

MaxVertices == 4   \* largest matrix given to the Dijkstra routines

InitDijkstra ==
    /\ \E n \in 1 .. MaxVertices :
          /\ matrix \in EnumMatrices(n)
          /\ node_names = DefaultNames(n)
    /\ last = [op |-> "start"]
    /\ calls = 0
    /\ net = IdleNet
    /\ dj = IdleDj

CallDijkstra ==
    /\ dj.pc = "idle"
    /\ \E repr \in {"list", "int64"}, start_vertex \in DOMAIN matrix :
          dj' = DijkstraLocals("dijkstra", repr, matrix, start_vertex, None)
    /\ UNCHANGED <<matrix, node_names, last, calls, net>>

CallDijkstraToTarget ==
    /\ dj.pc = "idle"
    /\ \E repr \in {"list", "int64"}, start_vertex \in DOMAIN matrix,
          destination_vertex \in DOMAIN matrix :
          dj' = DijkstraLocals("dijkstra_to_target", repr, matrix, start_vertex,
                               destination_vertex)
    /\ UNCHANGED <<matrix, node_names, last, calls, net>>

StepDijkstra ==
    /\ dj.pc = "loop"
    /\ dj.routine = "dijkstra"
    /\ dj.iterations < dj.n_vertices - 1
    /\ dj' = DijkstraIteration(dj, matrix)
    /\ UNCHANGED <<matrix, node_names, last, calls, net>>

StepToTarget ==
    /\ dj.pc = "loop"
    /\ dj.routine = "dijkstra_to_target"
    /\ dj.iterations < dj.n_vertices
    /\ dj' = ToTargetIteration(dj, matrix)
    /\ UNCHANGED <<matrix, node_names, last, calls, net>>

FinishDijkstra ==
    /\ dj.pc = "loop"
    /\ dj.routine = "dijkstra"
    /\ dj.iterations = dj.n_vertices - 1
    /\ dj' = [dj EXCEPT !.pc = "done", !.outcome = "returned",
                         !.printed = print_solution(dj)]
    /\ UNCHANGED <<matrix, node_names, last, calls, net>>

FinishToTarget ==
    /\ dj.pc \in {"loop", "break"}
    /\ dj.routine = "dijkstra_to_target"
    /\ dj.pc = "loop" => dj.iterations = dj.n_vertices
    /\ dj' = [dj EXCEPT !.pc = "done", !.outcome = "returned",
                         !.printed = PrintTarget(dj)]
    /\ UNCHANGED <<matrix, node_names, last, calls, net>>

NextDijkstra ==
    \/ CallDijkstra
    \/ CallDijkstraToTarget
    \/ StepDijkstra
    \/ StepToTarget
    \/ FinishDijkstra
    \/ FinishToTarget

SpecDijkstra == InitDijkstra /\ [][NextDijkstra]_vars

(***************************************************************************)
(* Shortest paths by definition (Bellman-Ford over the entries > 0), the   *)
(* yardstick for the Dijkstra routines and for the two-hop cycle query.    *)
(***************************************************************************)
\* One more edge: from the pairs <<vertex, least weight>> over paths of some
\* length, the pairs over paths at most one edge longer.
RefDistStep(m, pairs) ==
    LET weights(t) == {p[2] + m[p[1]][t] : p \in {q \in pairs : m[q[1]][t] > 0}}
                      \cup {p[2] : p \in {q \in pairs : q[1] = t}}
    IN {<<t, SetMin(weights(t))>> : t \in {v \in DOMAIN m : weights(v) # {}}}

RECURSIVE RefDistWithin(_, _, _)
\* The pairs <<t, least weight of a path from s to t with at most k edges>>.
RefDistWithin(m, s, k) ==
    IF k = 0 THEN {<<s, 0>>}
    ELSE CHOOSE next \in {RefDistStep(m, pairs) : pairs \in {RefDistWithin(m, s, k - 1)}} :
             TRUE

\* The vertices a directed path over entries > 0 leads to from s.
Reachable(m, s) == {p[1] : p \in RefDistWithin(m, s, Size(m))}

\* The least weight of a path from s to a vertex t it reaches.
RefDist(m, s, t) == (CHOOSE p \in RefDistWithin(m, s, Size(m)) : p[1] = t)[2]

\* p is a directed walk over entries > 0.
IsWalk(m, p) ==
    /\ Len(p) >= 1
    /\ \A i \in 1 .. Len(p) : p[i] \in DOMAIN m
    /\ \A i \in 1 .. Len(p) - 1 : m[p[i]][p[i + 1]] > 0

WalkWeight(m, p) == SumTo([i \in 0 .. Len(p) - 2 |-> m[p[i + 1]][p[i + 2]]], Len(p) - 1)

\* The shortest paths from s to t, as index sequences from s to t inclusive.
ShortestPaths(m, s, t) ==
    {p \in SeqsUpTo(DOMAIN m, Size(m)) :
        /\ Len(p) >= 1
        /\ p[1] = s /\ p[Len(p)] = t
        /\ IsWalk(m, p)
        /\ WalkWeight(m, p) = RefDist(m, s, t)}

\* What a finished Dijkstra call reported, per vertex it reported on.
Reported(d) ==
    IF d.routine = "dijkstra" THEN d.printed
    ELSE (d.destination_vertex :> d.printed)

\* C8: for every vertex t reachable from the source, a finished Dijkstra call
\* reports the least total weight of a directed path from the source to t,
\* with a path that starts at the source, ends at t, uses only entries > 0
\* and whose weights sum to that distance.
C8_DijkstraReportsShortestPaths ==
    dj.pc = "done" =>
        \A t \in DOMAIN Reported(dj) \cap Reachable(matrix, dj.start_vertex) :
                LET r == Reported(dj)[t]
                IN /\ r.distance = RefDist(matrix, dj.start_vertex, t)
                   /\ IsWalk(matrix, r.path)
                   /\ r.path[1] = dj.start_vertex
                   /\ r.path[Len(r.path)] = t
                   /\ WalkWeight(matrix, r.path) = r.distance

\* C9: when no directed path of entries > 0 leads from the source to the
\* destination, dijkstra_to_target fails with Unreachable and yields no
\* distance and no path.
C9_UnreachableTargetFails ==
    (/\ dj.pc = "done"
     /\ dj.routine = "dijkstra_to_target"
     /\ dj.destination_vertex \notin Reachable(matrix, dj.start_vertex))
    => (dj.outcome = "Unreachable" /\ dj.printed = None)

\* C10: for names A and B with matrix[A][B] > 0 and a directed path from B
\* back to A, find_debt_cycle_shortest_back returns [A, B] followed by a
\* shortest path from B to A without its first element and without a
\* trailing A; on the documented matrix with A = Pedro and B = Pilar that is
\* the cycle Pedro, Pilar, Andrea, David that the enumeration finds.
C10_TwoHopQueryReturnsCycle ==
    (/\ last.op = "find_debt_cycle_shortest_back"
     /\ last.start_node \in Range(node_names)
     /\ last.second_node \in Range(node_names)
     /\ last.start_node # last.second_node)
    => LET u == NameToIndex(node_names)[last.start_node]
           v == NameToIndex(node_names)[last.second_node]
       IN (matrix[u][v] > 0 /\ u \in Reachable(matrix, v)) =>
             /\ last.result # None
             /\ \E p \in ShortestPaths(matrix, v, u) :
                   last.result =
                       canonicalize_cycle(
                           [i \in 1 .. Len(p) + 1 |-> node_names[(<<u>> \o p)[i]]])
             /\ (matrix = DocNetwork.matrix /\ node_names = DocNetwork.node_names
                 /\ last.start_node = "Pedro" /\ last.second_node = "Pilar")
                => last.result = <<"Pedro", "Pilar", "Andrea", "David">>

(***************************************************************************)
(* bebdim_merge.py and networkconnect.py: loading two networks and the     *)
(* BEBDiM merge.  A network arrives as a decoded JSON object: nodes as a   *)
(* list of names or as an object keyed by strings, the matrix as a list of *)
(* rows.                                                                   *)
(***************************************************************************)
MaxMergeN == 2   \* largest number of nodes of a network to be merged

MaxMergeW == 1   \* largest entry of a matrix to be merged

MergeNames == {"Pedro", "Pilar"}

IntLikeKeys == {"0", "1"}

\* int(k) for the object keys of the model.
IntOfKey(k) == CASE k = "0" -> 0 [] k = "1" -> 1 [] k = "2" -> 2 [] k = "3" -> 3

ValueError == [outcome |-> "ValueError"]

as_index_name_map(nodes_any) ==
    IF nodes_any.form = "list"
    THEN [outcome |-> "ok", map |-> FromList(nodes_any.names)]
    ELSE IF nodes_any.form = "dict"
    THEN IF \E k \in DOMAIN nodes_any.items : k \notin IntLikeKeys
         THEN ValueError
         ELSE [outcome |-> "ok",
               map |-> [idx \in {IntOfKey(k) : k \in DOMAIN nodes_any.items} |->
                           nodes_any.items[CHOOSE k \in DOMAIN nodes_any.items :
                                               IntOfKey(k) = idx]]]
    ELSE ValueError

\* A padding of ones.
OnesRow(k) == [j \in 1 .. k |-> 1]

\* [0] * k
ZeroRow(k) == [j \in 1 .. k |-> 0]

\* A value of the decoded JSON: an integer, a float given in tenths (25 is
\* 2.5), or a string that is no number.
JsonInt(k) == [kind |-> "int", tenths |-> 10 * k]

JsonFloat(t) == [kind |-> "float", tenths |-> t]

JsonText == [kind |-> "str", tenths |-> 0]

\* int(v) of a number: the fraction is cut off towards zero.
PyInt(v) ==
    IF v.tenths >= 0 THEN v.tenths \div 10 ELSE 0 - ((0 - v.tenths) \div 10)

\* int(v) raises for a string that is no number.
IntRaises(v) == v.kind = "str"

\* Lines 92-98 of _validate_or_pad_matrix: an int or an integral float is
\* converted with int(v); anything else is also tried with int(v), which
\* raises only when the conversion itself fails.
IntLikeRaises(v) ==
    IF v.kind = "int" \/ (v.kind = "float" /\ v.tenths % 10 = 0)
    THEN FALSE
    ELSE IntRaises(v)

validate_or_pad_matrix(m, n_expected, allow_autopad) ==
    LET norm_rows == [i \in 1 .. Len(m) |-> [j \in 1 .. Len(m[i]) |-> PyInt(m[i][j])]]
        max_len == SetMax({0} \cup {Len(norm_rows[i]) : i \in 1 .. Len(norm_rows)})
        padded_cols == [i \in 1 .. Len(norm_rows) |->
                           IF n_expected - Len(norm_rows[i]) > 0 /\ allow_autopad
                           THEN norm_rows[i] \o ZeroRow(n_expected - Len(norm_rows[i]))
                           ELSE norm_rows[i]]
        added_cols_max ==
            IF allow_autopad
            THEN SetMax({0} \cup {n_expected - Len(norm_rows[i]) : i \in 1 .. Len(norm_rows)})
            ELSE 0
        pad_rows == Len(norm_rows) < n_expected /\ allow_autopad
        missing == n_expected - Len(norm_rows)
        padded_rows ==
            IF pad_rows
            THEN padded_cols \o [k \in 1 .. missing |-> ZeroRow(n_expected)]
            ELSE padded_cols
    IN IF \E i \in 1 .. Len(m) : \E j \in 1 .. Len(m[i]) : IntLikeRaises(m[i][j])
       THEN ValueError
       ELSE IF \E i \in 1 .. Len(m) : \E j \in 1 .. Len(m[i]) : norm_rows[i][j] < 0
       THEN ValueError
       ELSE IF max_len > n_expected THEN ValueError
       ELSE IF Len(norm_rows) > n_expected THEN ValueError
       ELSE IF ~allow_autopad /\ (Len(norm_rows) # n_expected \/ max_len # n_expected)
       THEN ValueError
       ELSE IF \/ Len(padded_rows) # n_expected
               \/ \E i \in 1 .. Len(padded_rows) : Len(padded_rows[i]) # n_expected
       THEN ValueError
       ELSE [outcome |-> "ok",
             matrix |-> FromRows(padded_rows),
             pad_info |-> [added_rows |-> IF pad_rows THEN missing ELSE 0,
                           added_cols_max |-> added_cols_max]]

load_network_from_b64(obj, allow_autopad) ==
    LET nodes == as_index_name_map(obj.nodes)
        n == Cardinality(DOMAIN nodes.map)
        checked == validate_or_pad_matrix(obj.matrix, n, allow_autopad)
    IN IF nodes.outcome # "ok" THEN ValueError
       ELSE IF checked.outcome # "ok" THEN ValueError
       ELSE [outcome |-> "ok", matrix |-> checked.matrix, nodes_map |-> nodes.map,
             pad_info |-> checked.pad_info]

\* The cell written last with the value 1, had the bridge been set in the
\* column of A's first node.
BridgeCellMirrored(a) == <<a, 0>>

\* The cell of "D[0, a] = 1".
BridgeCell(a) == <<0, a>>

\* A merge whose bridge carries the weight 2.
MergeWithBridgeOfTwo(A, B) ==
    LET a == Size(A)
        b == Size(B)
    IN IF a + b = 0 \/ b = 0
       THEN [outcome |-> "IndexError"]
       ELSE [outcome |-> "ok",
             D |-> [i \in Idx(a + b) |-> [j \in Idx(a + b) |->
                       IF <<i, j>> = <<0, a>> THEN 2
                       ELSE IF i >= a /\ j >= a THEN B[i - a][j - a]
                       ELSE IF i < a /\ j < a THEN A[i][j]
                       ELSE 0]]]

\* strict_merge_A_top_left_B_bottom_right; the write to D[0, a] raises
\* IndexError when D has no such cell.
strict_merge_A_top_left_B_bottom_right(A, B) ==
    LET a == Size(A)
        b == Size(B)
        bridge == BridgeCell(a)
    IN IF bridge[1] \notin Idx(a + b) \/ bridge[2] \notin Idx(a + b)
       THEN [outcome |-> "IndexError"]
       ELSE [outcome |-> "ok",
             D |-> [i \in Idx(a + b) |-> [j \in Idx(a + b) |->
                       IF <<i, j>> = bridge THEN 1
                       ELSE IF i >= a /\ j >= a THEN B[i - a][j - a]
                       ELSE IF i < a /\ j < a THEN A[i][j]
                       ELSE 0]]]

\* construct_matrix_with_A_top_left of networkconnect.py: the same blocks
\* and bridge in a float array (the entries are the same numbers); the
\* arrays it is given are square.
construct_matrix_with_A_top_left(A, B) ==
    LET a == Size(A)
        b == Size(B)
        bridge == BridgeCell(a)
    IN IF bridge[1] \notin Idx(a + b) \/ bridge[2] \notin Idx(a + b)
       THEN [outcome |-> "IndexError"]
       ELSE [outcome |-> "ok",
             D |-> [i \in Idx(a + b) |-> [j \in Idx(a + b) |->
                       IF <<i, j>> = bridge THEN 1
                       ELSE IF i >= a /\ j >= a THEN B[i - a][j - a]
                       ELSE IF i < a /\ j < a THEN A[i][j]
                       ELSE 0]]]

\* An offset of the largest key of nodesA instead of len(nodesA).
OffsetLastKey(nodesA) == SetMax({0} \cup DOMAIN nodesA)

\* offset = len(nodesA)
Offset(nodesA) == Cardinality(DOMAIN nodesA)

\* merge_node_maps and construct_node_name_with_A_B: nodesA with every
\* entry of nodesB written at its key plus the offset.
merge_node_maps(nodesA, nodesB) ==
    LET offset == Offset(nodesA)
        shifted == {offset + j : j \in DOMAIN nodesB}
    IN [k \in DOMAIN nodesA \cup shifted |->
           IF k \in shifted THEN nodesB[k - offset] ELSE nodesA[k]]

\* construct_node_name_with_A_B of networkconnect.py.
construct_node_name_with_A_B(node_namesA, node_namesB) ==
    LET offset == Offset(node_namesA)
        shifted == {i + offset : i \in DOMAIN node_namesB}
    IN [k \in DOMAIN node_namesA \cup shifted |->
           IF k \in shifted THEN node_namesB[k - offset] ELSE node_namesA[k]]

\* merge_two_networks_from_b64_strict after both networks are loaded.
MergeLoaded(loadedA, loadedB) ==
    LET merged == strict_merge_A_top_left_B_bottom_right(loadedA.matrix, loadedB.matrix)
        merged_nodes_map == merge_node_maps(loadedA.nodes_map, loadedB.nodes_map)
        len == Cardinality(DOMAIN merged_nodes_map)
    IN IF merged.outcome # "ok"
       THEN [outcome |-> merged.outcome]
       ELSE IF \E i \in Idx(len) : i \notin DOMAIN merged_nodes_map
       THEN [outcome |-> "KeyError", D |-> merged.D, merged_nodes_map |-> merged_nodes_map]
       ELSE [outcome |-> "ok", D |-> merged.D, merged_nodes_map |-> merged_nodes_map,
             nodes_list |-> [p \in 1 .. len |-> merged_nodes_map[p - 1]],
             sizes |-> [A |-> Size(loadedA.matrix), B |-> Size(loadedB.matrix),
                        D |-> Size(merged.D)]]

\* The node inputs: lists of names, objects keyed by strings (one key, "x",
\* is not int-like), and something that is neither.
NodeInputs ==
    {[form |-> "list", names |-> names] : names \in SeqsUpTo(MergeNames, MaxMergeN)}
    \cup {[form |-> "dict", items |-> items] :
             items \in UNION {[K -> MergeNames] :
                                 K \in SubsetsUpTo(IntLikeKeys \cup {"x"}, MaxMergeN)}}
    \cup {[form |-> "other"]}

JsonRows(rows) ==
    [i \in 1 .. Len(rows) |-> [j \in 1 .. Len(rows[i]) |-> JsonInt(rows[i][j])]]

\* The matrix inputs: at most MaxMergeN rows of at most MaxMergeN integer
\* entries, and ill-formed ones: a negative entry, a row that is too long,
\* too many rows, the entries 1.5 and -0.5, and an entry that is text.
MatrixInputs ==
    {JsonRows(rows) : rows \in
        SeqsUpTo(SeqsUpTo(0 .. MaxMergeW, MaxMergeN), MaxMergeN)
        \cup {<< <<-1>> >>, << ZeroRow(MaxMergeN + 1) >>, [i \in 1 .. MaxMergeN + 1 |-> <<>>]}}
    \cup {<< <<JsonFloat(15)>> >>, << <<JsonFloat(-5)>> >>, << <<JsonText>> >>}

NetworkInputs == [nodes : NodeInputs, matrix : MatrixInputs]

\* The square arrays and index-keyed name dicts handed to networkconnect.py.
ArrayNetworks ==
    UNION {[matrix : {FromRows(rows) : rows \in SeqOfLen(SeqOfLen(0 .. MaxMergeW, n), n)},
            nodes_map : [Idx(n) -> MergeNames]] : n \in 0 .. MaxMergeN}

NotLoaded == [outcome |-> "not loaded"]

NoResult == [outcome |-> "none"]

InitMerge ==
    /\ matrix = <<>>
    /\ node_names = <<>>
    /\ last = [op |-> "start"]
    /\ calls = 0
    /\ net = IdleNet
    /\ dj = IdleDj

\* merge_two_networks_from_b64_strict, first load_network_from_b64.
LoadA ==
    /\ net.phase = "idle"
    /\ \E obj \in NetworkInputs, allow_autopad \in BOOLEAN :
          LET loaded == load_network_from_b64(obj, allow_autopad)
          IN net' = [phase |-> IF loaded.outcome = "ok" THEN "loadedA" ELSE "done",
                     op |-> "merge_two_networks_from_b64_strict",
                     allow_autopad |-> allow_autopad,
                     A |-> loaded, B |-> NotLoaded,
                     outcome |-> IF loaded.outcome = "ok" THEN None ELSE loaded.outcome,
                     result |-> NoResult]
    /\ UNCHANGED <<matrix, node_names, last, calls, dj>>

\* merge_two_networks_from_b64_strict, second load_network_from_b64.
LoadB ==
    /\ net.phase = "loadedA"
    /\ \E obj \in NetworkInputs :
          LET loaded == load_network_from_b64(obj, net.allow_autopad)
          IN net' = [net EXCEPT
                        !.phase = IF loaded.outcome = "ok" THEN "loadedB" ELSE "done",
                        !.B = loaded,
                        !.outcome = IF loaded.outcome = "ok" THEN None ELSE loaded.outcome]
    /\ UNCHANGED <<matrix, node_names, last, calls, dj>>

\* merge_two_networks_from_b64_strict, from line 246 to the return.
Merge ==
    /\ net.phase = "loadedB"
    /\ LET r == MergeLoaded(net.A, net.B)
       IN net' = [net EXCEPT !.phase = "done", !.outcome = r.outcome, !.result = r]
    /\ UNCHANGED <<matrix, node_names, last, calls, dj>>

\* networkconnect.py: D and node_namesD built from two arrays and their
\* name dicts.
ConnectNetworks ==
    /\ net.phase = "idle"
    /\ \E netA \in ArrayNetworks, netB \in ArrayNetworks :
          LET merged == construct_matrix_with_A_top_left(netA.matrix, netB.matrix)
              node_namesD == construct_node_name_with_A_B(netA.nodes_map, netB.nodes_map)
          IN net' = [phase |-> "done",
                     op |-> "networkconnect",
                     allow_autopad |-> FALSE,
                     A |-> [outcome |-> "ok", matrix |-> netA.matrix,
                            nodes_map |-> netA.nodes_map],
                     B |-> [outcome |-> "ok", matrix |-> netB.matrix,
                            nodes_map |-> netB.nodes_map],
                     outcome |-> merged.outcome,
                     result |-> IF merged.outcome = "ok"
                                THEN [outcome |-> "ok", D |-> merged.D,
                                      merged_nodes_map |-> node_namesD]
                                ELSE [outcome |-> merged.outcome]]
    /\ UNCHANGED <<matrix, node_names, last, calls, dj>>

NextMerge ==
    \/ LoadA
    \/ LoadB
    \/ Merge
    \/ ConnectNetworks

SpecMerge == InitMerge /\ [][NextMerge]_vars

(***************************************************************************)
(* Claims about the merge.                                                 *)
(***************************************************************************)
\* Both networks were available and the merge step ran.
MergeRan ==
    /\ net.phase = "done"
    /\ net.A.outcome = "ok"
    /\ net.B.outcome = "ok"

\* D was built and holds A, B, the bridge and zeros as BEBDiM prescribes.
IsBEBDiM(r, A, B) ==
    LET a == Size(A)
        b == Size(B)
    IN /\ r.outcome \in {"ok", "KeyError"}
       /\ DOMAIN r.D = Idx(a + b)
       /\ \A i \in Idx(a + b) : DOMAIN r.D[i] = Idx(a + b)
       /\ \A i \in Idx(a), j \in Idx(a) : r.D[i][j] = A[i][j]
       /\ \A i \in Idx(b), j \in Idx(b) : r.D[a + i][a + j] = B[i][j]
       /\ r.D[0][a] = 1
       /\ \A i \in Idx(a + b), j \in Idx(a + b) :
             ((i < a) # (j < a)) /\ <<i, j>> # <<0, a>> => r.D[i][j] = 0

\* C6 as stated: for every pair of square matrices A (size a) and B (size b)
\* the merge returns D of size a+b with A top left, B bottom right,
\* D[0][a] = 1 and every other cross-block cell 0.
C6_MergeBlocksAnySize ==
    MergeRan => IsBEBDiM(net.result, net.A.matrix, net.B.matrix)

\* C6 for non-empty networks: for square matrices A (size a >= 1) and B
\* (size b >= 1) the merge returns D of size a+b with D[i][j] = A[i][j] for
\* i,j < a, D[a+i][a+j] = B[i][j] for i,j < b, D[0][a] = 1 and every other
\* cross-block cell 0.
C6_MergeBlocksNonEmpty ==
    (MergeRan /\ Size(net.A.matrix) >= 1 /\ Size(net.B.matrix) >= 1)
    => IsBEBDiM(net.result, net.A.matrix, net.B.matrix)

C6_Witness ==
    /\ MergeRan
    /\ net.op = "merge_two_networks_from_b64_strict"
    /\ net.outcome = "ok"
    /\ Size(net.A.matrix) = 2
    /\ Size(net.B.matrix) = 2
    /\ net.A.matrix[1][0] = 1
    /\ net.B.matrix[0][1] = 1
    /\ net.B.matrix[0][0] = 0

\* A name map keyed 0..n-1.
IndexKeyed(nodes_map) == DOMAIN nodes_map = Idx(Cardinality(DOMAIN nodes_map))

\* C7: merging the name maps of A (a names, keyed 0..a-1) and B (b names,
\* keyed 0..b-1) yields a map keyed 0..a+b-1 with A's name i at index i and
\* B's name j at index a+j; a name that occurs in both is kept at both
\* indices and the merge is not rejected.
C7_MergedNodeMap ==
    (MergeRan /\ IndexKeyed(net.A.nodes_map) /\ IndexKeyed(net.B.nodes_map))
    => LET nodesA == net.A.nodes_map
           nodesB == net.B.nodes_map
           a == Cardinality(DOMAIN nodesA)
           b == Cardinality(DOMAIN nodesB)
       IN /\ net.result.outcome \in {"ok", "KeyError"} =>
                /\ DOMAIN net.result.merged_nodes_map = Idx(a + b)
                /\ \A i \in Idx(a) : net.result.merged_nodes_map[i] = nodesA[i]
                /\ \A j \in Idx(b) : net.result.merged_nodes_map[a + j] = nodesB[j]
          /\ Range(nodesA) \cap Range(nodesB) # {} =>
                /\ net.outcome = "ok"
                /\ \A i \in Idx(a), j \in Idx(b) :
                      nodesA[i] = nodesB[j] =>
                         /\ net.result.merged_nodes_map[i] = nodesA[i]
                         /\ net.result.merged_nodes_map[a + j] = nodesA[i]

C7_Witness ==
    /\ MergeRan
    /\ net.op = "merge_two_networks_from_b64_strict"
    /\ net.outcome = "ok"
    /\ IndexKeyed(net.A.nodes_map)
    /\ IndexKeyed(net.B.nodes_map)
    /\ Cardinality(DOMAIN net.A.nodes_map) = 2
    /\ Cardinality(DOMAIN net.B.nodes_map) = 2
    /\ net.A.nodes_map[1] = "Pilar"
    /\ net.B.nodes_map[0] = "Pilar"
    /\ net.result.merged_nodes_map[1] = "Pilar"
    /\ net.result.merged_nodes_map[2] = "Pilar"

(***************************************************************************)
(* Claims about the failures of the two-hop query.                         *)
(***************************************************************************)
\* C11: the two-hop query fails with "No direct debt" whenever
\* matrix[A][B] <= 0, with "No path" whenever matrix[A][B] > 0 and A is not
\* reachable from B, rejects a name that is not in the node set, and fails
\* in no other case.
C11_TwoHopFailsOnlyAsSpecified ==
    last.op = "find_debt_cycle_shortest_back" =>
        IF last.start_node \notin Range(node_names) \/ last.second_node \notin Range(node_names)
        THEN last.message = "Invalid node names"
        ELSE LET u == NameToIndex(node_names)[last.start_node]
                 v == NameToIndex(node_names)[last.second_node]
             IN IF matrix[u][v] <= 0 THEN last.message = "No direct debt"
                ELSE IF u \notin Reachable(matrix, v) THEN last.message = "No path"
                ELSE last.message = None

\* The simple directed cycles of the graph whose edges are the entries > 0,
\* over node indices, one representative per rotation class.
SimpleIndexCycles(m) ==
    {c \in SeqsUpTo(DOMAIN m, Size(m)) :
        /\ Len(c) >= 2
        /\ \A p, q \in 1 .. Len(c) : p # q => c[p] # c[q]
        /\ \A p \in 1 .. Len(c) : c[1] <= c[p]
        /\ \A p \in 1 .. Len(c) : m[c[p]][c[(p % Len(c)) + 1]] > 0}

NamesOf(nn, c) == [p \in 1 .. Len(c) |-> nn[c[p]]]

ReportedCycles == {r.cycle : r \in last.cycles}

(***************************************************************************)
(* C12: detect_debt_cycles reports exactly the simple directed cycles of   *)
(* the graph whose edges are the entries > 0: every reported cycle has at  *)
(* least 2 distinct nodes, does not repeat its first node at the end, has  *)
(* all its consecutive and closing edges > 0, and every such cycle of the  *)
(* matrix is reported exactly once up to rotation.                         *)
(***************************************************************************)
C12_ReportsExactlySimpleCycles ==
    Analyzed =>
        /\ ReportedCycles = {NamesOf(node_names, c) : c \in SimpleIndexCycles(matrix)}
        /\ Cardinality(last.cycles) = Cardinality(SimpleIndexCycles(matrix))

\* The same statement for networks with distinct names and a zero diagonal.
ReportsSimpleCyclesWithoutSelfDebt ==
    (/\ Analyzed
     /\ Cardinality(Range(node_names)) = Size(matrix)
     /\ \A i \in DOMAIN matrix : matrix[i][i] = 0) =>
        /\ ReportedCycles = {NamesOf(node_names, c) : c \in SimpleIndexCycles(matrix)}
        /\ Cardinality(last.cycles) = Cardinality(SimpleIndexCycles(matrix))

\* The length of a cycle once a repeated closing node is dropped.
CanonicalLen(cycle) ==
    IF Len(cycle) > 1 /\ cycle[1] = cycle[Len(cycle)] THEN Len(cycle) - 1 ELSE Len(cycle)

RejectedCycle ==
    /\ last.op = "apply_cycle_settlement"
    /\ \/ CanonicalLen(last.cycle) < 2
       \/ \E p \in 1 .. Len(last.cycle) : last.cycle[p] \notin Range(last.names_before)

(***************************************************************************)
(* C13: a cycle settlement that is rejected, because the cycle has fewer   *)
(* than 2 nodes ("Invalid cycle") or names a node that is not in the       *)
(* network (KeyError), leaves every matrix entry unchanged; a settlement   *)
(* is either rejected or applied to all its links, never to some of them.  *)
(***************************************************************************)
C13_RejectedSettlementChangesNothing ==
    last.op = "apply_cycle_settlement" =>
        /\ RejectedCycle => (last.outcome \in {"Invalid cycle", "KeyError"} /\ matrix = last.before)
        /\ CanonicalLen(last.cycle) < 2 => last.outcome = "Invalid cycle"
        /\ ~RejectedCycle => last.outcome = "Applied"
        /\ last.outcome # "Applied" => matrix = last.before

\* A cycle whose first link exists with a positive entry and whose later
\* element is unknown is rejected.
C13_Witness ==
    /\ last.op = "apply_cycle_settlement"
    /\ last.outcome = "KeyError"
    /\ Len(last.cycle) = 3
    /\ last.cycle[1] \in Range(last.names_before)
    /\ last.cycle[2] \in Range(last.names_before)
    /\ last.cycle[3] \notin Range(last.names_before)
    /\ last.before[NodeOf(last.names_before, last.cycle, 1)][NodeOf(last.names_before, last.cycle, 2)] > 0
    /\ matrix = last.before

(***************************************************************************)
(* Adjacencymatrixinput.py and AdjacencyMatrixTool.py: the Base64 code of  *)
(* a network, and the loader of bebdim_merge.py seen with its input.       *)
(***************************************************************************)
\* Keys written counting from one.
StrOfIntFromOne(i) == <<"1", "2", "3", "4">>[i + 1]

\* str(i) as json.dumps writes an integer key of a dict.
StrOfInt(i) == <<"0", "1", "2", "3">>[i + 1]

\* f"Node{i}"
DefaultNodeName(i) == <<"Node0", "Node1", "Node2", "Node3">>[i + 1]

\* The rows of a list-of-lists matrix, as the list json.dumps writes.
ToRows(m) == [i \in 1 .. Size(m) |-> [j \in 1 .. Size(m[i - 1]) |-> m[i - 1][j - 1]]]

\* json.dumps({"nodes": node_names, "matrix": matrix}): the integer keys of
\* node_names become strings, the entries integer literals.
JsonDumps(m, nn) ==
    [form |-> "dict", has_matrix |-> TRUE, has_nodes |-> TRUE,
     matrix |-> JsonRows(ToRows(m)),
     nodes |-> [form |-> "dict",
                items |-> [k \in {StrOfInt(i) : i \in DOMAIN nn} |->
                              nn[CHOOSE i \in DOMAIN nn : StrOfInt(i) = k]]]]

\* base64.b64encode(json_str.encode('utf-8')).decode('utf-8')
B64Encode(json_str) == [base64 |-> json_str]

\* json.loads(base64.b64decode(code.encode('utf-8')).decode('utf-8'))
B64DecodeJson(code) == code.base64

encode_adjacency_matrix(m, nn) == B64Encode(JsonDumps(m, nn))

\* {int(k): str(v) for k, v in nodes_any.items()}
IntKeyed(items) ==
    [idx \in {IntOfKey(k) : k \in DOMAIN items} |->
        items[CHOOSE k \in DOMAIN items : IntOfKey(k) = idx]]

\* decode_adjacency_code of Adjacencymatrixinput.py.  Every entry goes
\* through int(v); neither the shape nor the sign is looked at.
decode_adjacency_code(code) ==
    LET data == B64DecodeJson(code)
        intRows == [i \in 1 .. Len(data.matrix) |->
                       [j \in 1 .. Len(data.matrix[i]) |-> PyInt(data.matrix[i][j])]]
        raises == \E i \in 1 .. Len(data.matrix) : \E j \in 1 .. Len(data.matrix[i]) :
                      IntRaises(data.matrix[i][j])
        defaults == [i \in Idx(Len(data.matrix)) |-> DefaultNodeName(i)]
    IN IF data.form = "list"
       THEN IF raises THEN ValueError
            ELSE [outcome |-> "ok", matrix |-> FromRows(intRows), node_names |-> defaults]
       ELSE IF data.form # "dict" THEN ValueError
       ELSE IF ~data.has_matrix THEN ValueError
       ELSE IF raises THEN ValueError
       ELSE IF ~data.has_nodes
       THEN [outcome |-> "ok", matrix |-> FromRows(intRows), node_names |-> defaults]
       ELSE IF data.nodes.form = "list"
       THEN [outcome |-> "ok", matrix |-> FromRows(intRows),
             node_names |-> FromList(data.nodes.names)]
       ELSE IF data.nodes.form = "dict"
       THEN IF \E k \in DOMAIN data.nodes.items : k \notin IntLikeKeys \cup {"2", "3"}
            THEN ValueError
            ELSE [outcome |-> "ok", matrix |-> FromRows(intRows),
                  node_names |-> IntKeyed(data.nodes.items)]
       ELSE ValueError

\* validate_decoded_matrix: what it prints; it returns nothing and raises
\* nothing.
validate_decoded_matrix(m, directed, report_asymmetry) ==
    LET n == Size(m)
        is_square == \A i \in DOMAIN m : Size(m[i]) = n
        asym == Cardinality({c \in (DOMAIN m) \X (DOMAIN m) :
                                c[1] < c[2] /\ m[c[1]][c[2]] # m[c[2]][c[1]]})
        is_symmetric == \A i, j \in DOMAIN m : m[i][j] = m[j][i]
    IN IF ~is_square THEN [message |-> "not square", asym |-> 0]
       ELSE IF directed
       THEN IF report_asymmetry THEN [message |-> "directed", asym |-> asym]
            ELSE [message |-> "square", asym |-> 0]
       ELSE IF ~is_symmetric THEN [message |-> "not symmetric", asym |-> 0]
       ELSE [message |-> "symmetric", asym |-> 0]

\* decode_adjacency_code of AdjacencyMatrixTool.py: the matrix as parsed,
\* the keys of the nodes object through int(k).
tool_decode_adjacency_code(code) ==
    LET data == B64DecodeJson(code)
        rows == [i \in 1 .. Len(data.matrix) |->
                    [j \in 1 .. Len(data.matrix[i]) |-> data.matrix[i][j].tenths \div 10]]
    IN IF data.form # "dict" THEN [outcome |-> "TypeError"]
       ELSE IF ~data.has_matrix \/ ~data.has_nodes THEN [outcome |-> "KeyError"]
       ELSE IF data.nodes.form # "dict" THEN [outcome |-> "AttributeError"]
       ELSE [outcome |-> "ok", matrix |-> FromRows(rows),
             node_names |-> IntKeyed(data.nodes.items)]

\* The JSON documents pasted as a code: a bare matrix, an object with or
\* without its "matrix" and "nodes" members, and a scalar.
DataInputs ==
    {[form |-> "list", has_matrix |-> FALSE, has_nodes |-> FALSE,
      matrix |-> m, nodes |-> [form |-> "other"]] : m \in MatrixInputs}
    \cup {[form |-> "dict", has_matrix |-> TRUE, has_nodes |-> TRUE,
           matrix |-> m, nodes |-> nd] : m \in MatrixInputs, nd \in NodeInputs}
    \cup {[form |-> "dict", has_matrix |-> TRUE, has_nodes |-> FALSE,
           matrix |-> m, nodes |-> [form |-> "other"]] : m \in MatrixInputs}
    \cup {[form |-> "dict", has_matrix |-> FALSE, has_nodes |-> TRUE,
           matrix |-> <<>>, nodes |-> nd] : nd \in NodeInputs}
    \cup {[form |-> "other", has_matrix |-> FALSE, has_nodes |-> FALSE,
           matrix |-> <<>>, nodes |-> [form |-> "other"]]}

\* The networks typed in at the console: n names and n rows of n integers.
ConsoleNetworks ==
    UNION {[matrix : {FromRows(rows) : rows \in SeqOfLen(SeqOfLen(0 .. MaxMergeW, n), n)},
            node_names : [Idx(n) -> MergeNames]] : n \in 0 .. MaxMergeN}

InitLoad ==
    /\ matrix = <<>>
    /\ node_names = <<>>
    /\ last = [op |-> "start"]
    /\ calls = 0
    /\ net = IdleNet
    /\ dj = IdleDj

\* load_network_from_b64(combined_b64 = ..., allow_autopad = ...).
LoadNetwork ==
    /\ calls < MaxCalls
    /\ \E obj \in NetworkInputs, allow_autopad \in BOOLEAN :
          LET loaded == load_network_from_b64(obj, allow_autopad)
          IN /\ last' = [op |-> "load_network_from_b64", obj |-> obj,
                         allow_autopad |-> allow_autopad, loaded |-> loaded]
             /\ matrix' = IF loaded.outcome = "ok" THEN loaded.matrix ELSE matrix
             /\ node_names' = IF loaded.outcome = "ok" THEN loaded.nodes_map ELSE node_names
    /\ calls' = calls + 1
    /\ UNCHANGED <<net, dj>>

\* Adjacencymatrixinput.py run with option 2: decode, validate, print, and
\* the closing verification, whose decoded_names[i] raises KeyError for a
\* row without a name.
DecodeCode ==
    /\ calls < MaxCalls
    /\ \E data \in DataInputs :
          LET decoded == decode_adjacency_code(B64Encode(data))
          IN IF decoded.outcome # "ok"
             THEN /\ last' = [op |-> "decode_adjacency_code", data |-> data,
                              outcome |-> decoded.outcome, printed |-> "none"]
                  /\ UNCHANGED <<matrix, node_names>>
             ELSE /\ last' = [op |-> "decode_adjacency_code", data |-> data,
                              outcome |-> IF \E i \in DOMAIN decoded.matrix :
                                                i \notin DOMAIN decoded.node_names
                                          THEN "KeyError" ELSE "ok",
                              printed |-> validate_decoded_matrix(decoded.matrix, TRUE, TRUE).message]
                  /\ matrix' = decoded.matrix
                  /\ node_names' = decoded.node_names
    /\ calls' = calls + 1
    /\ UNCHANGED <<net, dj>>

\* Adjacencymatrixinput.py run with option 1: the typed network is encoded
\* and the code decoded again for the verification.
EncodeInput ==
    /\ calls < MaxCalls
    /\ \E nw \in ConsoleNetworks :
          LET encoded_code == encode_adjacency_matrix(nw.matrix, nw.node_names)
              decoded == decode_adjacency_code(encoded_code)
          IN /\ last' = [op |-> "encode_adjacency_matrix", module |-> "Adjacencymatrixinput",
                         encoded_code |-> encoded_code, decoded |-> decoded,
                         printed |-> validate_decoded_matrix(decoded.matrix, TRUE, FALSE).message]
             /\ matrix' = nw.matrix
             /\ node_names' = nw.node_names
    /\ calls' = calls + 1
    /\ UNCHANGED <<net, dj>>

\* capture_graph_from_console of AdjacencyMatrixTool.py with option 1.
CaptureGraph ==
    /\ calls < MaxCalls
    /\ \E nw \in ConsoleNetworks :
          LET encoded_code == encode_adjacency_matrix(nw.matrix, nw.node_names)
              decoded == tool_decode_adjacency_code(encoded_code)
          IN /\ last' = [op |-> "encode_adjacency_matrix", module |-> "AdjacencyMatrixTool",
                         encoded_code |-> encoded_code, decoded |-> decoded,
                         printed |-> "none"]
             /\ matrix' = nw.matrix
             /\ node_names' = nw.node_names
    /\ calls' = calls + 1
    /\ UNCHANGED <<net, dj>>

NextLoad ==
    \/ LoadNetwork
    \/ DecodeCode
    \/ EncodeInput
    \/ CaptureGraph

SpecLoad == InitLoad /\ [][NextLoad]_vars

\* An entry that is text, has a fraction, or is negative.
BadEntry(v) == v.kind = "str" \/ v.tenths % 10 # 0 \/ v.tenths < 0

HasBadEntry(m) == \E i \in 1 .. Len(m) : \E j \in 1 .. Len(m[i]) : BadEntry(m[i][j])

HasFraction(m) ==
    \E i \in 1 .. Len(m) : \E j \in 1 .. Len(m[i]) :
        m[i][j].kind = "float" /\ m[i][j].tenths % 10 # 0

\* Some row's length differs from the number of rows.
NotSquare(m) == \E i \in 1 .. Len(m) : Len(m[i]) # Len(m)

(***************************************************************************)
(* C14: loading a matrix is rejected with a validation error, and no       *)
(* matrix is produced, whenever a row's length differs from the number of  *)
(* rows (for the loader of bebdim_merge.py: when auto-padding is off), an  *)
(* entry is not integer-valued (for example 1.5), or an entry is negative. *)
(***************************************************************************)
C14_InvalidMatrixRejected ==
    /\ last.op = "load_network_from_b64" =>
          ((HasBadEntry(last.obj.matrix) \/ (~last.allow_autopad /\ NotSquare(last.obj.matrix)))
              => (last.loaded.outcome = "ValueError" /\ matrix = <<>>))
    /\ (last.op = "decode_adjacency_code" /\ last.data.form # "other" /\ (last.data.form = "dict" => last.data.has_matrix)) =>
          ((HasBadEntry(last.data.matrix) \/ NotSquare(last.data.matrix))
              => (last.outcome = "ValueError" /\ matrix = <<>>))

\* What the loader of bebdim_merge.py does reject: text, negative integers,
\* and, without auto-padding, every matrix that is not square.
LoaderRejectsAllButFractions ==
    last.op = "load_network_from_b64" =>
        (((HasBadEntry(last.obj.matrix) /\ ~HasFraction(last.obj.matrix))
          \/ (~last.allow_autopad /\ NotSquare(last.obj.matrix)))
            => (last.loaded.outcome = "ValueError" /\ matrix = <<>>))

\* The nodes of the loaded object are a list, or an object whose keys are
\* all int-like.
NodesDeclared(nodes) ==
    \/ nodes.form = "list"
    \/ nodes.form = "dict" /\ \A k \in DOMAIN nodes.items : k \in IntLikeKeys

\* The declared node count.
DeclaredCount(nodes) ==
    IF nodes.form = "list" THEN Len(nodes.names) ELSE Cardinality(DOMAIN nodes.items)

LoadedWithAutopad ==
    /\ last.op = "load_network_from_b64"
    /\ last.allow_autopad
    /\ NodesDeclared(last.obj.nodes)

(***************************************************************************)
(* C15: with auto-padding on and n declared nodes, a supplied matrix of    *)
(* non-negative integers with fewer than n rows or with rows shorter than  *)
(* n is extended with zeros to exactly n x n and every supplied entry      *)
(* keeps its value and position; a supplied matrix with more than n rows   *)
(* or with a row longer than n is rejected with a validation error and is  *)
(* never truncated.                                                        *)
(***************************************************************************)
C15_AutopadExtendsNeverTruncates ==
    LoadedWithAutopad =>
        LET m == last.obj.matrix
            n == DeclaredCount(last.obj.nodes)
        IN IF Len(m) > n \/ \E i \in 1 .. Len(m) : Len(m[i]) > n
           THEN last.loaded.outcome = "ValueError" /\ matrix = <<>>
           ELSE ~HasBadEntry(m) =>
                   /\ last.loaded.outcome = "ok"
                   /\ DOMAIN matrix = Idx(n)
                   /\ \A i \in Idx(n) : DOMAIN matrix[i] = Idx(n)
                   /\ \A i \in Idx(n), j \in Idx(n) :
                         IF i < Len(m) /\ j < Len(m[i + 1])
                         THEN 10 * matrix[i][j] = m[i + 1][j + 1].tenths
                         ELSE matrix[i][j] = 0
                   /\ last.loaded.pad_info.added_rows = n - Len(m)

\* Two nodes are declared and one row with the single entry 1 is supplied.
C15_Witness ==
    /\ LoadedWithAutopad
    /\ last.loaded.outcome = "ok"
    /\ DeclaredCount(last.obj.nodes) = 2
    /\ Len(last.obj.matrix) = 1
    /\ Len(last.obj.matrix[1]) = 1
    /\ last.obj.matrix[1][1] = JsonInt(1)
    /\ matrix = FromRows(<< <<1, 0>>, <<0, 0>> >>)

Encoded == last.op = "encode_adjacency_matrix"

(***************************************************************************)
(* C16: for every square matrix M of non-negative integers and every name  *)
(* map N keyed 0..n-1, decoding the code encode_adjacency_matrix(M, N)     *)
(* yields a matrix equal to M and a name map equal to N, with the same     *)
(* integer keys and the same names; this holds for the decoder of          *)
(* Adjacencymatrixinput.py and for the one of AdjacencyMatrixTool.py.      *)
(***************************************************************************)
C16_EncodeDecodeRoundTrip ==
    Encoded =>
        /\ last.decoded.outcome = "ok"
        /\ last.decoded.matrix = matrix
        /\ last.decoded.node_names = node_names
        /\ DOMAIN last.decoded.node_names = Idx(Size(matrix))

\* A two-node network with a debt and two different names went through
\* capture_graph_from_console.
C16_Witness ==
    /\ Encoded
    /\ last.module = "AdjacencyMatrixTool"
    /\ Size(matrix) = 2
    /\ matrix[0][1] = 1
    /\ matrix[1][0] = 0
    /\ node_names[0] # node_names[1]
    /\ last.decoded.matrix = matrix
    /\ last.decoded.node_names = node_names

(***************************************************************************)
(* C17: for every node index i of a valid matrix, analyze_debt_matrix      *)
(* reports owed_by[i] = the sum of row i, owed_to[i] = the sum of column   *)
(* i and net_balance[i] = owed_to[i] - owed_by[i]; every index has its own *)
(* figures, also when two nodes carry the same display name.               *)
(***************************************************************************)
C17_FiguresPerIndex ==
    Analyzed =>
        /\ Len(last.total_owed_by) = Size(matrix)
        /\ Len(last.total_owed_to) = Size(matrix)
        /\ Len(last.net_balance) = Size(matrix)
        /\ \A i \in DOMAIN matrix :
              /\ DictGet(last.total_owed_by, node_names[i]) = RowSum(matrix, i)
              /\ DictGet(last.total_owed_to, node_names[i]) = ColSum(matrix, i)
              /\ DictGet(last.net_balance, node_names[i])
                    = ColSum(matrix, i) - RowSum(matrix, i)

\* The same figures for networks whose names are pairwise distinct.
FiguresPerIndexDistinctNames ==
    (Analyzed /\ Cardinality(Range(node_names)) = Size(matrix)) =>
        /\ Len(last.net_balance) = Size(matrix)
        /\ \A i \in DOMAIN matrix :
              /\ last.total_owed_by[i + 1] = <<node_names[i], RowSum(matrix, i)>>
              /\ last.total_owed_to[i + 1] = <<node_names[i], ColSum(matrix, i)>>
              /\ last.net_balance[i + 1]
                    = <<node_names[i], ColSum(matrix, i) - RowSum(matrix, i)>>

\* The smallest index among the nodes whose reported figure is the largest
\* (smallest) one of the dict d.
SmallestIndexAtMax(d) ==
    SetMin({i \in DOMAIN node_names :
               \A j \in DOMAIN node_names :
                   DictGet(d, node_names[j]) <= DictGet(d, node_names[i])})

SmallestIndexAtMin(d) ==
    SetMin({i \in DOMAIN node_names :
               \A j \in DOMAIN node_names :
                   DictGet(d, node_names[i]) <= DictGet(d, node_names[j])})

TieAtMaximumReported ==
    /\ Analyzed
    /\ Size(matrix) = 3
    /\ Cardinality(Range(node_names)) = 3
    /\ ColSum(matrix, 1) = ColSum(matrix, 2)
    /\ ColSum(matrix, 0) < ColSum(matrix, 1)
    /\ last.most_owed[1] = node_names[1]

\* The wraparound minimum of a canonical cycle of the current network.
WraparoundMin(cycle) ==
    SetMin({matrix[c[1]][c[2]] : c \in RingCells(node_names, cycle)})

(***************************************************************************)
(* C19: every place that computes a cycle's bottleneck yields, for the     *)
(* same matrix and canonical cycle, the wraparound minimum that includes   *)
(* the closing link from the last node back to the first; in particular    *)
(* the min_transfer of /analyze-cycle and /send-condonation-email equals   *)
(* the amount apply_cycle_settlement subtracts for that cycle.             *)
(***************************************************************************)
C19_BottleneckIsWraparoundMinimum ==
    /\ last.op = "min_transfer" =>
          /\ last.settlement = WraparoundMin(last.cycle)
          /\ last.suggested = WraparoundMin(last.cycle)
          /\ last.api = last.settlement
    /\ (last.op \in {"/analyze-cycle", "/send-condonation-email"} /\ last.response.status = 200) =>
          last.response.min_transfer = WraparoundMin(last.response.cycle)

\* The places of Adjacencymatrixinsights.py agree on the wraparound minimum.
InsightsBottlenecksAgree ==
    last.op = "min_transfer" =>
        /\ last.settlement = WraparoundMin(last.cycle)
        /\ last.suggested = WraparoundMin(last.cycle)

\* As find_debt_cycle_shortest_back returns no cycle, both endpoints answer
\* 400 before min_transfer is computed.
EndpointsAnswer400 ==
    last.op \in {"/analyze-cycle", "/send-condonation-email"} => last.response.status = 400

(***************************************************************************)
(* A ledger: a loaded network that is merged with further loaded networks  *)
(* and settled along the cycles detect_debt_cycles reports.                *)
(***************************************************************************)
MaxLedgerN == 3       \* largest number of nodes of the ledger

MaxLedgerSteps == 2   \* merges and settlements in one run

\* What load_network_from_b64 returns for the inputs it accepts.
ValidatedNetworks ==
    UNION {LET loaded == load_network_from_b64(obj, allow_autopad)
           IN IF loaded.outcome = "ok"
              THEN {[outcome |-> "ok", matrix |-> loaded.matrix,
                     nodes_map |-> loaded.nodes_map]}
              ELSE {} : obj \in NetworkInputs, allow_autopad \in BOOLEAN}

InitLedger ==
    /\ \E nw \in ValidatedNetworks : matrix = nw.matrix /\ node_names = nw.nodes_map
    /\ last = [op |-> "start"]
    /\ calls = 0
    /\ net = IdleNet
    /\ dj = IdleDj

\* The BEBDiM merge of the ledger (as A or as B) with a loaded network.
MergeLedger ==
    /\ calls < MaxLedgerSteps
    /\ \E other \in ValidatedNetworks, ledgerIsA \in BOOLEAN :
          LET ledger == [outcome |-> "ok", matrix |-> matrix, nodes_map |-> node_names]
              r == IF ledgerIsA THEN MergeLoaded(ledger, other) ELSE MergeLoaded(other, ledger)
          IN /\ Size(matrix) + Size(other.matrix) <= MaxLedgerN
             /\ last' = [op |-> "merge_two_networks_from_b64_strict", outcome |-> r.outcome]
             /\ matrix' = IF r.outcome = "ok" THEN r.D ELSE matrix
             /\ node_names' = IF r.outcome = "ok" THEN r.merged_nodes_map ELSE node_names
    /\ calls' = calls + 1
    /\ UNCHANGED <<net, dj>>

\* detect_debt_cycles raises KeyError at node_names[i] when a positive
\* entry belongs to an index without a name.
DetectRaises ==
    \E i, j \in DOMAIN matrix :
        matrix[i][j] > 0 /\ (i \notin DOMAIN node_names \/ j \notin DOMAIN node_names)

\* apply_cycle_settlement on a cycle that detect_debt_cycles reported.
SettleLedger ==
    /\ calls < MaxLedgerSteps
    /\ ~DetectRaises
    /\ \E found \in detect_debt_cycles(matrix, node_names) :
          LET r == apply_cycle_settlement(matrix, node_names, found.cycle)
          IN /\ matrix' = r.matrix
             /\ last' = [op |-> "apply_cycle_settlement", outcome |-> r.outcome,
                         min_transfer |-> r.min_transfer]
    /\ calls' = calls + 1
    /\ UNCHANGED <<node_names, net, dj>>

NextLedger == MergeLedger \/ SettleLedger

SpecLedger == InitLedger /\ [][NextLedger]_vars

(***************************************************************************)
(* C20: starting from validated matrices, after any sequence of BEBDiM     *)
(* merges and of cycle settlements on cycles obtained from cycle           *)
(* discovery, the current matrix is square and every entry is >= 0.        *)
(***************************************************************************)
C20_LedgerSquareNonNegative ==
    /\ DOMAIN matrix = Idx(Size(matrix))
    /\ \A i \in DOMAIN matrix :
          /\ DOMAIN matrix[i] = Idx(Size(matrix))
          /\ \A j \in DOMAIN matrix[i] : matrix[i][j] >= 0

\* A merged ledger of three nodes on which a settlement has cancelled a
\* cycle: only the bridge is left.
C20_Witness ==
    /\ calls = 2
    /\ last.op = "apply_cycle_settlement"
    /\ last.outcome = "Applied"
    /\ last.min_transfer = 1
    /\ Size(matrix) = 3
    /\ \E i, j \in DOMAIN matrix :
          /\ matrix[i][j] = 1
          /\ \A k, l \in DOMAIN matrix : <<k, l>> # <<i, j>> => matrix[k][l] = 0

RECURSIVE DijkstraAfter(_, _, _)
\* The locals of dijkstra after k iterations of its loop.
DijkstraAfter(d, m, k) ==
    IF k = 0 THEN d ELSE DijkstraIteration(DijkstraAfter(d, m, k - 1), m)

\* What dijkstra prints for the same matrix, representation and source as
\* the running call.
AllTargetsReport ==
    print_solution(DijkstraAfter(
        DijkstraLocals("dijkstra", dj.repr, matrix, dj.start_vertex, None),
        matrix, dj.n_vertices - 1))

ToTargetDone ==
    /\ dj.pc = "done"
    /\ dj.routine = "dijkstra_to_target"
    /\ dj.destination_vertex # dj.start_vertex

(***************************************************************************)
(* C21: for every matrix, source s and destination t, the distance and the *)
(* path dijkstra_to_target reports for t are identical to those dijkstra   *)
(* reports for t from the same source; stopping early at the destination   *)
(* changes neither.                                                        *)
(***************************************************************************)
C21_ToTargetEqualsAllTargets ==
    ToTargetDone =>
        /\ dj.printed.distance = AllTargetsReport[dj.destination_vertex].distance
        /\ dj.printed.path = AllTargetsReport[dj.destination_vertex].path

\* The same statement for matrices given as Python lists.
ToTargetEqualsAllTargetsOnLists ==
    (ToTargetDone /\ dj.repr = "list") =>
        /\ dj.printed.distance = AllTargetsReport[dj.destination_vertex].distance
        /\ dj.printed.path = AllTargetsReport[dj.destination_vertex].path

\* A step of the loop of either Dijkstra routine.
DijkstraStepTaken ==
    /\ dj.pc = "loop"
    /\ dj'.pc \in {"loop", "break"}
    /\ dj'.iterations = dj.iterations + 1

\* The not-yet-finalized vertices that share the smallest tentative distance
\* (a vertex still at sys.maxsize has none).
TiedAtMinimum(d) ==
    LET open == {v \in DOMAIN d.added : ~d.added[v] /\ d.shortest_distances[v] < MaxSize}
    IN {v \in open : \A w \in open : d.shortest_distances[v] <= d.shortest_distances[w]}

(***************************************************************************)
(* C22: in every Dijkstra step, of the not-yet-finalized vertices that     *)
(* share the minimum tentative distance the one with the lowest index is   *)
(* finalized next, and a vertex's recorded parent is replaced only when    *)
(* its distance strictly decreases, never by an equal-distance route.      *)
(***************************************************************************)
C22_LowestIndexFirstStrictRelaxation ==
    [][DijkstraStepTaken =>
          /\ TiedAtMinimum(dj) # {} =>
                /\ dj'.picked[Len(dj'.picked)] = SetMin(TiedAtMinimum(dj))
                /\ dj'.added[SetMin(TiedAtMinimum(dj))]
          /\ \A v \in DOMAIN dj.parents :
                dj'.parents[v] # dj.parents[v] =>
                    dj'.shortest_distances[v] < dj.shortest_distances[v]]_vars

\* Vertices 1 and 2 were both at distance 1 from the source 0; vertex 1 was
\* finalized and vertex 2 is still open.
C22_Witness ==
    /\ dj.pc = "loop"
    /\ dj.start_vertex = 0
    /\ Size(matrix) >= 3
    /\ matrix[0][1] = 1
    /\ matrix[0][2] = 1
    /\ dj.picked = <<0, 1>>
    /\ dj.added[1]
    /\ ~dj.added[2]
    /\ dj.shortest_distances[2] = 1

\* Vertex 2 is at distance 2 directly from the source and also by way of
\* vertex 1; after vertex 1 is finalized its parent is still the source.
EqualRouteKeepsParent ==
    /\ dj.pc = "loop"
    /\ dj.start_vertex = 0
    /\ Size(matrix) >= 3
    /\ matrix[0][1] = 1
    /\ matrix[0][2] = 2
    /\ matrix[1][2] = 1
    /\ dj.picked = <<0, 1>>
    /\ dj.parents[2] = 0
    /\ dj.shortest_distances[2] = 2

DijkstraRunning == dj.pc \in {"loop", "break", "done"}

\* What a step may do to finalized vertices: the selected vertex was not
\* finalized before, a finalized vertex keeps its distance and its parent,
\* and only the selected vertex becomes finalized.
FinalizedStaysFinal ==
    LET selected == dj'.picked[Len(dj'.picked)]
    IN /\ selected # -1 => ~dj.added[selected]
       /\ \A v \in DOMAIN dj.added :
             dj.added[v] =>
                /\ dj'.shortest_distances[v] = dj.shortest_distances[v]
                /\ dj'.parents[v] = dj.parents[v]
       /\ \A v \in DOMAIN dj.added :
             (dj'.added[v] /\ ~dj.added[v]) => v = selected

(***************************************************************************)
(* C23: throughout a Dijkstra run the source's distance is 0, a finalized  *)
(* (added) vertex is never selected again, the distance and the parent of  *)
(* a finalized vertex never change in a later step, and only a vertex that *)
(* was selected as the nearest unfinalized one becomes finalized.          *)
(***************************************************************************)
C23_MonotonicFrontier ==
    /\ [](DijkstraRunning => dj.shortest_distances[dj.start_vertex] = 0)
    /\ [][DijkstraStepTaken => FinalizedStaysFinal]_vars

\* The same statement for dijkstra_to_target alone.
MonotonicFrontierToTarget ==
    /\ []((DijkstraRunning /\ dj.routine = "dijkstra_to_target")
             => dj.shortest_distances[dj.start_vertex] = 0)
    /\ [][(DijkstraStepTaken /\ dj.routine = "dijkstra_to_target")
             => FinalizedStaysFinal]_vars

\* For dijkstra on Python lists the distances and parents of finalized
\* vertices are kept and the source stays at 0.
ListDistancesKept ==
    /\ []((DijkstraRunning /\ dj.repr = "list")
             => dj.shortest_distances[dj.start_vertex] = 0)
    /\ [][(DijkstraStepTaken /\ dj.repr = "list") =>
             \A v \in DOMAIN dj.added :
                 dj.added[v] =>
                    /\ dj'.shortest_distances[v] = dj.shortest_distances[v]
                    /\ dj'.parents[v] = dj.parents[v]]_vars

(***************************************************************************)
(* suggest_settlements, one iteration of its while loop per step.          *)
(***************************************************************************)
MaxParties == 4   \* largest number of names in a net-balance dict

MaxBalance == 2   \* largest absolute balance

\* The net-balance dicts: the first k names of the pool, each with a balance.
NetBalanceInputs ==
    UNION {{[p \in 1 .. k |-> <<NamePool[p], b[p]>>] :
               b \in [1 .. k -> (0 - MaxBalance) .. MaxBalance]} : k \in 0 .. MaxParties}

InitSettle ==
    /\ matrix = <<>>
    /\ node_names = <<>>
    /\ \E net_balance \in NetBalanceInputs :
          last = [op |-> "suggest_settlements", pc |-> "loop",
                  net_balance |-> net_balance, st |-> SettleStart(net_balance)]
    /\ calls = 0
    /\ net = IdleNet
    /\ dj = IdleDj

\* while i < len(debtors) and j < len(creditors): one pass of the body.
SettleIteration ==
    /\ last.pc = "loop"
    /\ SettleGuard(last.st)
    /\ last' = [last EXCEPT !.st = SettleStep(last.st)]
    /\ UNCHANGED <<matrix, node_names, calls, net, dj>>

\* The loop condition is false: suggest_settlements returns.
SettleReturn ==
    /\ last.pc = "loop"
    /\ ~SettleGuard(last.st)
    /\ last' = [last EXCEPT !.pc = "done"]
    /\ UNCHANGED <<matrix, node_names, calls, net, dj>>

NextSettle == SettleIteration \/ SettleReturn

\* The interpreter keeps running the loop.
SpecSettle == InitSettle /\ [][NextSettle]_vars /\ WF_vars(NextSettle)

\* What one pass of the loop body has to do.
PaysMinimumAndAdvances ==
    LET i == last.st.i
        j == last.st.j
        debt == 0 - last.st.debtors[i + 1][2]
        credit == last.st.creditors[j + 1][2]
        payment == last'.st.printed[Len(last'.st.printed)][3]
        debtLeft == last'.st.debtors[i + 1][2]
        creditLeft == last'.st.creditors[j + 1][2]
    IN /\ payment = (IF debt <= credit THEN debt ELSE credit)
       /\ payment > 0
       /\ debtLeft = payment - debt
       /\ creditLeft = credit - payment
       /\ debtLeft = 0 \/ creditLeft = 0
       /\ last'.st.i = (IF debtLeft = 0 THEN i + 1 ELSE i)
       /\ last'.st.j = (IF creditLeft = 0 THEN j + 1 ELSE j)

(***************************************************************************)
(* C24: the net-balance settlement loop terminates for every net-balance   *)
(* input: each iteration pays min(|debtor's remaining balance|, creditor's *)
(* remaining balance), which brings the debtor, the creditor or both to    *)
(* exactly 0 and advances the corresponding pointer(s), and the loop ends  *)
(* as soon as either list is exhausted.                                    *)
(***************************************************************************)
C24_SettlementLoopTerminates ==
    /\ [][(last.pc = "loop" /\ last'.pc = "loop") => PaysMinimumAndAdvances]_vars
    /\ [](last.pc = "done" =>
             (last.st.i = Len(last.st.debtors) \/ last.st.j = Len(last.st.creditors)))
    /\ <>(last.pc = "done")

\* A run of two payments: the first left the debtor owing, the second
\* settled the last debtor and the last creditor in the same step.
C24_Witness ==
    /\ last.pc = "done"
    /\ Len(last.st.printed) = 2
    /\ Len(last.st.creditors) = 2
    /\ last.st.i = Len(last.st.debtors)
    /\ last.st.j = Len(last.st.creditors)

\* The first node is not repeated at the end of the list.
FirstNotRepeatedAtEnd(c) == Len(c) <= 1 \/ c[Len(c)] # c[1]

\* The list the last settlement worked on.
SettlementCanonical == canonicalize_cycle(last.cycle)

(***************************************************************************)
(* C25: for every input list, the result of canonicalize_cycle either has  *)
(* length at most 1 or its last element differs from its first element     *)
(* (the first node is not repeated at the end), and a list that already    *)
(* satisfies this is returned unchanged.                                   *)
(***************************************************************************)
C25_CanonicalDoesNotRepeatFirst ==
    last.op = "apply_cycle_settlement" =>
        /\ FirstNotRepeatedAtEnd(SettlementCanonical)
        /\ FirstNotRepeatedAtEnd(last.cycle) => SettlementCanonical = last.cycle

\* The same for the lists that repeat the first node at the end at most once.
CanonicalDoesNotRepeatFirstOnce ==
    (/\ last.op = "apply_cycle_settlement"
     /\ (Len(last.cycle) >= 3 => last.cycle[Len(last.cycle) - 1] # last.cycle[1])) =>
        /\ FirstNotRepeatedAtEnd(SettlementCanonical)
        /\ FirstNotRepeatedAtEnd(last.cycle) => SettlementCanonical = last.cycle

\* A list that ends with its first node twice is settled as a two-node cycle.
FirstRepeatedTwiceSettled ==
    /\ last.op = "apply_cycle_settlement"
    /\ Len(last.cycle) = 3
    /\ last.cycle[1] = last.cycle[2] /\ last.cycle[2] = last.cycle[3]
    /\ last.outcome = "Applied"
    /\ last.min_transfer = 1

\* Column sum minus row sum of node i.
NetOf(m, i) == ColSum(m, i) - RowSum(m, i)

\* The total of all entries.
TotalOf(m) == SumTo([i \in DOMAIN m |-> RowSum(m, i)], Size(m))

\* A settlement was applied to a simple cycle.
SettledSimpleCycle ==
    SettledCycle /\ IsSimpleNameCycle(SettlementCanonical, last.names_before)

(***************************************************************************)
(* C26: applying a cycle settlement to a simple cycle leaves the net       *)
(* balance (column sum minus row sum) of every node unchanged, for cycle   *)
(* members and non-members alike, and lowers the total of all matrix       *)
(* entries by exactly k*m, where k is the cycle length and m the           *)
(* bottleneck.                                                             *)
(***************************************************************************)
C26_SettlementKeepsNetBalances ==
    SettledSimpleCycle =>
        /\ \A i \in DOMAIN matrix : NetOf(matrix, i) = NetOf(last.before, i)
        /\ TotalOf(matrix) = TotalOf(last.before) - Len(SettlementCanonical) * last.min_transfer

\* A settlement of 2 on a two-node cycle of a three-node network whose third
\* node has a balance of its own.
C26_Witness ==
    /\ SettledSimpleCycle
    /\ Len(SettlementCanonical) = 2
    /\ last.min_transfer = 2
    /\ \E i \in DOMAIN matrix :
          /\ last.names_before[i] \notin Range(SettlementCanonical)
          /\ NetOf(matrix, i) # 0

(***************************************************************************)
(* Settling until detect_debt_cycles finds no cycle: every step applies    *)
(* apply_cycle_settlement to one of the cycles detect_debt_cycles reports. *)
(***************************************************************************)
InitSettleAll ==
    /\ \E nw \in Networks : matrix = nw.matrix /\ node_names = nw.node_names
    /\ last = [op |-> "start"]
    /\ calls = 0
    /\ net = IdleNet
    /\ dj = IdleDj

SettleDetected ==
    /\ \E found \in detect_debt_cycles(matrix, node_names) :
          LET r == apply_cycle_settlement(matrix, node_names, found.cycle)
          IN /\ matrix' = r.matrix
             /\ last' = [op |-> "apply_cycle_settlement", cycle |-> found.cycle,
                         before |-> matrix, names_before |-> node_names,
                         outcome |-> r.outcome, min_transfer |-> r.min_transfer]
    /\ UNCHANGED <<node_names, calls, net, dj>>

NextSettleAll == SettleDetected

\* Whoever settles keeps settling while a settlement changes something.
SpecSettleAll == InitSettleAll /\ [][NextSettleAll]_vars /\ WF_vars(NextSettleAll)

PositiveCount(m) == Cardinality({c \in (DOMAIN m) \X (DOMAIN m) : m[c[1]][c[2]] > 0})

\* No directed cycle of positive entries, one-node cycles included.
NoPositiveCycle(m) ==
    /\ SimpleIndexCycles(m) = {}
    /\ \A i \in DOMAIN m : m[i][i] <= 0

\* This step applied a settlement to a simple cycle whose edges are all > 0.
SettledPositiveSimpleCycle ==
    /\ last'.op = "apply_cycle_settlement"
    /\ last'.outcome = "Applied"
    /\ last'.before = matrix
    /\ IsSimpleNameCycle(canonicalize_cycle(last'.cycle), node_names)
    /\ \A c \in RingCells(node_names, canonicalize_cycle(last'.cycle)) : matrix[c[1]][c[2]] > 0

(***************************************************************************)
(* C27: each cycle settlement applied to a simple cycle whose edges are    *)
(* all > 0 strictly decreases the number of positive matrix entries, so    *)
(* repeatedly settling any cycle that still exists terminates after        *)
(* finitely many settlements in a matrix that contains no directed cycle   *)
(* of positive entries.                                                    *)
(***************************************************************************)
C27_SettlingEndsWithoutCycles ==
    /\ [][SettledPositiveSimpleCycle => PositiveCount(matrix') < PositiveCount(matrix)]_vars
    /\ <>[]NoPositiveCycle(matrix)

\* The first half on its own: a settlement of a positive simple cycle leaves
\* fewer positive entries.
PositiveEntriesDecrease ==
    [][SettledPositiveSimpleCycle => PositiveCount(matrix') < PositiveCount(matrix)]_vars

DistinctNamesNoSelfDebt ==
    /\ Cardinality(Range(node_names)) = Size(matrix)
    /\ \A i \in DOMAIN matrix : matrix[i][i] = 0

\* The second half for networks with distinct names and a zero diagonal.
SettlingEndsWithoutSelfDebt == DistinctNamesNoSelfDebt ~> [](NoPositiveCycle(matrix))

\* Two settlements in a row, after which no cycle is left.
SettledTwiceToAcyclic ==
    /\ last.op = "apply_cycle_settlement"
    /\ last.outcome = "Applied"
    /\ last.min_transfer >= 1
    /\ SimpleIndexCycles(last.before) # {}
    /\ PositiveCount(last.before) <= 2
    /\ DistinctNamesNoSelfDebt
    /\ NoPositiveCycle(matrix)

\* A self-debt is reported as a cycle and its settlement is refused.
SelfDebtNeverSettled ==
    /\ last.op = "apply_cycle_settlement"
    /\ last.outcome = "Invalid cycle"
    /\ ~NoPositiveCycle(matrix)

NonNegative(m) == \A i \in DOMAIN m : \A j \in DOMAIN m[i] : m[i][j] >= 0

\* The last call passed a list of at least two known names.
SettledKnownNames ==
    /\ last.op = "apply_cycle_settlement"
    /\ Len(last.cycle) >= 2
    /\ \A p \in 1 .. Len(last.cycle) : last.cycle[p] \in Range(last.names_before)
    /\ NonNegative(last.before)

\* No link of the ring occurs twice.
LinksDistinct(nn, cycle) ==
    \A p, q \in 1 .. Len(cycle) :
        p # q => <<NodeOf(nn, cycle, p), NodeOf(nn, cycle, NextPos(cycle, p))>>
                     # <<NodeOf(nn, cycle, q), NodeOf(nn, cycle, NextPos(cycle, q))>>

(***************************************************************************)
(* C28: apply_cycle_settlement never makes any matrix entry negative for   *)
(* any list of known node names of length >= 2 passed as the cycle,        *)
(* including lists in which a node (and therefore an edge) occurs more     *)
(* than once.                                                              *)
(***************************************************************************)
C28_SettlementNeverNegative == SettledKnownNames => NonNegative(matrix)

\* The same for the lists in which no link occurs twice.
SettlementNeverNegativeDistinctLinks ==
    (SettledKnownNames /\ LinksDistinct(last.names_before, SettlementCanonical))
        => NonNegative(matrix)

\* A settlement along a list that repeats a node but no link.
RepeatedNodeSettled ==
    /\ SettledKnownNames
    /\ last.outcome = "Applied"
    /\ last.min_transfer >= 1
    /\ Len(SettlementCanonical) = 3
    /\ SettlementCanonical[2] = SettlementCanonical[3]
    /\ SettlementCanonical[1] # SettlementCanonical[2]
    /\ LinksDistinct(last.names_before, SettlementCanonical)

\* Two non-empty networks were merged.
MergedNonEmpty ==
    /\ MergeRan
    /\ net.outcome = "ok"
    /\ Size(net.A.matrix) >= 1
    /\ Size(net.B.matrix) >= 1

\* s reaches t in m and in d alike, at the same distance.
SameDistance(m, s, t, d, ds, dt) ==
    /\ (t \in Reachable(m, s)) <=> (dt \in Reachable(d, ds))
    /\ t \in Reachable(m, s) => RefDist(m, s, t) = RefDist(d, ds, dt)

(***************************************************************************)
(* C29: in a merged matrix D built from A (size a >= 1) and B (size        *)
(* b >= 1), no node of the B block (index >= a) can reach any node of the  *)
(* A block (index < a), the shortest-path distance between two A nodes in  *)
(* D equals their distance in A and likewise for two B nodes, and an A     *)
(* node i reaches a B node a+j exactly when i reaches node 0 in A and node *)
(* 0 reaches j in B, at distance dist_A(i,0) + 1 + dist_B(0,j).            *)
(***************************************************************************)
C29_MergedDistances ==
    MergedNonEmpty =>
        LET A == net.A.matrix
            B == net.B.matrix
            D == net.result.D
            a == Size(A)
            b == Size(B)
        IN /\ \A j \in Idx(b) : Reachable(D, a + j) \cap Idx(a) = {}
           /\ \A i, k \in Idx(a) : SameDistance(A, i, k, D, i, k)
           /\ \A j, k \in Idx(b) : SameDistance(B, j, k, D, a + j, a + k)
           /\ \A i \in Idx(a), j \in Idx(b) :
                 /\ (a + j \in Reachable(D, i))
                       <=> (0 \in Reachable(A, i) /\ j \in Reachable(B, 0))
                 /\ a + j \in Reachable(D, i) =>
                       RefDist(D, i, a + j) = RefDist(A, i, 0) + 1 + RefDist(B, 0, j)

\* A's node 1 reaches B's node 1 over node 0, the bridge and B's node 0, at
\* distance 3, and A's node 0 cannot be reached back from B.
C29_Witness ==
    /\ MergedNonEmpty
    /\ Size(net.A.matrix) = 2
    /\ Size(net.B.matrix) = 2
    /\ net.A.matrix[1][0] = 1
    /\ net.B.matrix[0][1] = 1
    /\ net.B.matrix[1][0] = 1
    /\ RefDist(net.result.D, 1, 3) = 3
    /\ 0 \notin Reachable(net.result.D, 2)

(***************************************************************************)
(* ResusableAzureblobstoragematrix.py: two calls that change an entry of   *)
(* the matrix stored in one blob.  net is the blob, last the two calls,    *)
(* matrix the array the blob held before the calls.                        *)
(***************************************************************************)
MaxBlobCols == 2   \* columns of the stored array (it has one row)

MaxEntry == 1      \* largest entry of the stored array

MaxDelta == 2      \* largest delta or value of a call

\* np.save: the shape and the entries in row-major order.
NpySave(arr) ==
    LET rows == Size(arr)
        cols == IF rows = 0 THEN 0 ELSE Size(arr[0])
    IN [magic |-> "NUMPY", shape |-> <<rows, cols>>,
        data |-> [p \in 1 .. rows * cols |-> arr[(p - 1) \div cols][(p - 1) % cols]]]

\* np.load(io.BytesIO(raw))
NpyLoad(raw) ==
    [i \in Idx(raw.shape[1]) |-> [j \in Idx(raw.shape[2]) |->
        raw.data[i * raw.shape[2] + j + 1]]]

\* base64.b64encode(buf.getvalue()).decode("utf-8") of the saved array
EncodeNpyB64(arr) == [base64 |-> NpySave(arr)]

\* np.load(io.BytesIO(base64.b64decode(b64)))
DecodeNpyB64(b64) == NpyLoad(b64.base64)

\* arr[i, j] = arr[i, j] + delta, or arr[i, j] = value
ChangedEntry(call, arr) ==
    [arr EXCEPT ![call.i][call.j] =
        IF call.routine = "add_to_matrix_entry" THEN @ + call.amount ELSE call.amount]

BlobArrays == {FromRows(<<row>>) : row \in SeqOfLen(0 .. MaxEntry, MaxBlobCols)}

\* The calls: the column MaxBlobCols is out of bounds.
BlobCalls(routines) ==
    [pc : {"start"}, routine : routines, i : {0}, j : 0 .. MaxBlobCols,
     amount : 1 .. MaxDelta, b64 : {None}, arr : {<<>>}, outcome : {None}]

InitBlob ==
    /\ matrix \in BlobArrays
    /\ node_names = <<>>
    /\ net = [phase |-> "stored", code |-> EncodeNpyB64(matrix)]
    /\ \E first \in BlobCalls({"add_to_matrix_entry"}),
          second \in BlobCalls({"add_to_matrix_entry", "modify_matrix_entry"}) :
          last = [op |-> "blob", call |-> <<first, second>>]
    /\ calls = 0
    /\ dj = IdleDj

\* b64 = download_base64_code(blob_name)
DownloadCode(c) ==
    /\ last.call[c].pc = "start"
    /\ last' = [last EXCEPT !.call[c].pc = "downloaded", !.call[c].b64 = net.code]
    /\ UNCHANGED <<matrix, node_names, calls, net, dj>>

\* Steps 2 to 5: decode, bounds check, change of the entry, encoding.
ChangeEntry(c) ==
    /\ last.call[c].pc = "downloaded"
    /\ LET call == last.call[c]
           arr == DecodeNpyB64(call.b64)
       IN IF call.i < 0 \/ call.j < 0 \/ call.i >= Size(arr) \/ call.j >= Size(arr[0])
          THEN last' = [last EXCEPT !.call[c].pc = "done", !.call[c].arr = arr,
                                    !.call[c].outcome = "IndexError"]
          ELSE last' = [last EXCEPT !.call[c].pc = "changed",
                                    !.call[c].arr = ChangedEntry(call, arr)]
    /\ UNCHANGED <<matrix, node_names, calls, net, dj>>

\* upload_base64_code(new_b64, blob_name=target_name): overwrite=True.
UploadCode(c) ==
    /\ last.call[c].pc = "changed"
    /\ net' = [net EXCEPT !.code = EncodeNpyB64(last.call[c].arr)]
    /\ last' = [last EXCEPT !.call[c].pc = "done", !.call[c].outcome = "ok"]
    /\ UNCHANGED <<matrix, node_names, calls, dj>>

NextBlob ==
    \E c \in 1 .. 2 :
        \/ DownloadCode(c)
        \/ ChangeEntry(c)
        \/ UploadCode(c)

SpecBlob == InitBlob /\ [][NextBlob]_vars

\* Both calls returned a blob name.
BothCompleted == \A c \in 1 .. 2 : last.call[c].pc = "done" /\ last.call[c].outcome = "ok"

StoredArray == DecodeNpyB64(net.code)

\* The stored array shows both changes, in one order or the other.
BothReflected ==
    \/ StoredArray = ChangedEntry(last.call[2], ChangedEntry(last.call[1], matrix))
    \/ StoredArray = ChangedEntry(last.call[1], ChangedEntry(last.call[2], matrix))

(***************************************************************************)
(* C30: when two add_to_matrix_entry calls (or an add_to_matrix_entry and  *)
(* a modify_matrix_entry) on the same blob interleave their download /     *)
(* change / upload steps, no update is lost: after both complete, the      *)
(* stored entry reflects both changes (for two adds on the same cell,      *)
(* initial value + delta1 + delta2).                                       *)
(***************************************************************************)
C30_NoLostUpdate == BothCompleted => BothReflected

\* A call is between its download and its upload.
InFlight(c) == last.call[c].pc \in {"downloaded", "changed"}

\* Calls that never overlap lose nothing.
SerialCallsLoseNothing ==
    <>(InFlight(1) /\ InFlight(2)) \/ [](BothCompleted => BothReflected)

\* Whatever the interleaving, the blob holds what the last upload wrote.
LastUploadStored ==
    BothCompleted => \E c \in 1 .. 2 : StoredArray = last.call[c].arr

\* Two adds on the same cell of which the blob shows only one.
OneAddLost ==
    /\ BothCompleted
    /\ last.call[2].routine = "add_to_matrix_entry"
    /\ last.call[1].j = last.call[2].j
    /\ StoredArray[0][last.call[1].j] = matrix[0][last.call[1].j] + last.call[2].amount

====
